---------------------------- MODULE Spec2Model ----------------------------
(***************************************************************************)
(* Connect 4 (CONNETC4.py): the board rules (ConnectFourBoard), the        *)
(* depth-limited minimax search with alpha-beta pruning (MinimaxAI) and    *)
(* the game controller (ConnectFourGUI), as state machines.                *)
(*                                                                         *)
(* A grid is a function board[r][c], r in 0..ROWS-1 (row 0 is the top),    *)
(* c in 0..COLS-1, as the list of lists of the program.  A position        *)
(* (row, col) is the tuple <<row, col>>.                                   *)
(***************************************************************************)
EXTENDS Integers, Sequences, FiniteSets, TLC

\* ---------------------------------------------------------------------
\* SECTION 0: configuration constants
\* ---------------------------------------------------------------------
ROWS == 6
COLS == 7
EMPTY_SLOT == 0
PLAYER_HUMAN_ID == 1
PLAYER_AI_ID == 2
AI_MAX_SEARCH_DEPTH == 7
SCORE_WIN == 1000000
SCORE_DRAW == 0

\* Python's None (a value no row, column or position equals).
None == -1
\* The None that make_move returns in place of a position (row, col).
NoResult == <<>>
\* math.inf: above every score the search computes; -math.inf is -Inf.
Inf == 1000000000

RowIdx == 0..(ROWS - 1)
ColIdx == 0..(COLS - 1)
Players == {PLAYER_HUMAN_ID, PLAYER_AI_ID}

\* ---------------------------------------------------------------------
\* SECTION 1: ConnectFourBoard
\* ---------------------------------------------------------------------

\* ConnectFourBoard.__init__: ROWS rows of COLS empty slots.
EmptyBoard == [r \in RowIdx |-> [c \in ColIdx |-> EMPTY_SLOT]]

\* range(COLS) as a sequence: 0, 1, ..., COLS-1.
range_COLS == [i \in 1..COLS |-> i - 1]

\* x in list
InList(x, list) == \E i \in 1..Len(list) : list[i] = x

\* get_legal_actions: the columns whose top cell (row 0) is empty, ascending.
get_legal_actions(board) ==
    SelectSeq(range_COLS, LAMBDA col_index : board[0][col_index] = EMPTY_SLOT)

\* get_legal_actions_for_copy: the same loop on a detached grid.
get_legal_actions_for_copy(board_data) ==
    SelectSeq(range_COLS, LAMBDA col_index : board_data[0][col_index] = EMPTY_SLOT)

\* The loop "for row_index in range(ROWS - 1, -1, -1)" of make_move and of
\* _simulate_move, entered at row_index: the first empty row at or above
\* row_index in the column, None when the loop runs out.
RECURSIVE lowest_empty_from(_, _, _)
lowest_empty_from(board, column_index, row_index) ==
    IF row_index < 0 THEN None
    ELSE IF board[row_index][column_index] = EMPTY_SLOT THEN row_index
    ELSE lowest_empty_from(board, column_index, row_index - 1)

\* make_move without gravity: the piece is put on the top row of the column.
make_move_wrong_row(board, column_index, player_id) ==
    IF ~InList(column_index, get_legal_actions(board))
    THEN [board |-> board, result |-> NoResult]
    ELSE [board |-> [board EXCEPT ![0][column_index] = player_id],
          result |-> <<0, column_index>>]

\* make_move without the test "column_index not in allowed_moves": a piece
\* dropped on a full column overwrites its top cell.
make_move_no_check(board, column_index, player_id) ==
    IF column_index \notin ColIdx
    THEN [board |-> board, result |-> NoResult]
    ELSE LET row_index == lowest_empty_from(board, column_index, ROWS - 1)
             row_used == IF row_index = None THEN 0 ELSE row_index
         IN [board |-> [board EXCEPT ![row_used][column_index] = player_id],
             result |-> <<row_used, column_index>>]

\* make_move: [board |-> the grid after the call, result |-> (row, col) or NoResult].
make_move(board, column_index, player_id) ==
    IF ~InList(column_index, get_legal_actions(board))
    THEN [board |-> board, result |-> NoResult]
    ELSE LET row_index == lowest_empty_from(board, column_index, ROWS - 1)
         IN IF row_index = None
            THEN [board |-> board, result |-> NoResult]
            ELSE [board |-> [board EXCEPT ![row_index][column_index] = player_id],
                  result |-> <<row_index, column_index>>]

\* directions_to_check of check_win: (row_change, col_change).
directions_to_check == << <<1, 0>>, <<0, 1>>, <<1, 1>>, <<1, -1>> >>

\* One counting loop of check_win, "for i in range(1, 4)", entered at i: the
\* number of cells it counts before it breaks.  sign is 1 for the positive
\* direction and -1 for the negative one.
RECURSIVE count_loop(_, _, _, _, _, _, _, _)
count_loop(board_data, last_row, last_col, row_step, col_step, sign, player_id, i) ==
    IF i >= 4 THEN 0
    ELSE LET r == last_row + sign * (row_step * i)
             c == last_col + sign * (col_step * i)
         IN IF (0 <= r /\ r < ROWS) /\ (0 <= c /\ c < COLS)
            THEN IF board_data[r][c] = player_id
                 THEN 1 + count_loop(board_data, last_row, last_col,
                                     row_step, col_step, sign, player_id, i + 1)
                 ELSE 0
            ELSE 0

\* count_consecutive_pieces of check_win for one direction.
count_consecutive_pieces(board_data, last_row, last_col, direction, player_id) ==
    1 + count_loop(board_data, last_row, last_col, direction[1], direction[2], 1, player_id, 1)
      + count_loop(board_data, last_row, last_col, direction[1], direction[2], -1, player_id, 1)

\* check_win counting in the positive direction only.
check_win_one_way(board_data, last_row, last_col, player_id) ==
    IF last_row = None \/ last_col = None THEN FALSE
    ELSE \E k \in 1..Len(directions_to_check) :
            1 + count_loop(board_data, last_row, last_col, directions_to_check[k][1],
                           directions_to_check[k][2], 1, player_id, 1) >= 4

\* check_win: four in a row of player_id through (last_row, last_col).
check_win(board_data, last_row, last_col, player_id) ==
    IF last_row = None \/ last_col = None THEN FALSE
    ELSE \E k \in 1..Len(directions_to_check) :
            count_consecutive_pieces(board_data, last_row, last_col,
                                     directions_to_check[k], player_id) >= 4

\* ---------------------------------------------------------------------
\* SECTION 2: MinimaxAI, as functions
\*
\* A MinimaxAI instance is the record self = [max_search_depth,
\* current_depth_tracker].  A method that writes the instance or the grid
\* it is handed returns them: [value, board, self].
\* ---------------------------------------------------------------------

\* MinimaxAI.__init__: the instance after construction.  Nothing in the
\* program assigns max_search_depth again.
MinimaxAI ==
    [max_search_depth |-> AI_MAX_SEARCH_DEPTH, current_depth_tracker |-> 0]

\* _simulate_move without gravity: the piece is put on the top row.
simulate_move_top(board_data, col, player_id) ==
    [board |-> [board_data EXCEPT ![0][col] = player_id], pos |-> <<0, col>>]

\* _simulate_move: [board |-> the grid after the call, pos |-> (r, col) or (None, None)].
simulate_move(board_data, col, player_id) ==
    LET r == lowest_empty_from(board_data, col, ROWS - 1)
    IN IF r = None
       THEN [board |-> board_data, pos |-> <<None, None>>]
       ELSE [board |-> [board_data EXCEPT ![r][col] = player_id], pos |-> <<r, col>>]

\* _undo_move that leaves the piece where it is.
undo_move_skip(board_data, row, col) == board_data

\* _undo_move: the grid after the call.
undo_move(board_data, row, col) ==
    IF row # None THEN [board_data EXCEPT ![row][col] = EMPTY_SLOT] ELSE board_data

\* The loop "for r in range(ROWS)" of _calculate_score, entered at r with
\* score: the positional score of the centre column.
RECURSIVE center_loop(_, _, _)
center_loop(board_data, r, score) ==
    IF r >= ROWS THEN score
    ELSE LET piece_at_center == board_data[r][COLS \div 2]
         IN center_loop(board_data, r + 1,
                        IF piece_at_center = PLAYER_AI_ID THEN score + 3
                        ELSE IF piece_at_center = PLAYER_HUMAN_ID THEN score - 3
                        ELSE score)

\* _calculate_score with a win of the human scored as a win of the AI.
calculate_score_unsigned(self, board_data, last_pos, player_id) ==
    IF check_win(board_data, last_pos[1], last_pos[2], player_id)
    THEN SCORE_WIN + (self.max_search_depth - self.current_depth_tracker)
    ELSE center_loop(board_data, 0, 0)

\* _calculate_score without the depth bonus on a win.
calculate_score_no_bias(self, board_data, last_pos, player_id) ==
    IF check_win(board_data, last_pos[1], last_pos[2], player_id)
    THEN IF player_id = PLAYER_AI_ID THEN SCORE_WIN ELSE -SCORE_WIN
    ELSE center_loop(board_data, 0, 0)

\* _calculate_score: reads the depth from the instance, not from a parameter.
calculate_score(self, board_data, last_pos, player_id) ==
    LET depth == self.current_depth_tracker
        did_win == check_win(board_data, last_pos[1], last_pos[2], player_id)
    IN IF did_win
       THEN IF player_id = PLAYER_AI_ID
            THEN SCORE_WIN + (self.max_search_depth - depth)
            ELSE -SCORE_WIN - (self.max_search_depth - depth)
       ELSE center_loop(board_data, 0, 0)

\* The stopping conditions with the full board tested first.
base_case_draw_first(self, board, depth, is_maximizing_player, last_pos) ==
    LET player_who_just_moved ==
            IF is_maximizing_player THEN PLAYER_HUMAN_ID ELSE PLAYER_AI_ID
    IN IF Len(get_legal_actions_for_copy(board)) = 0
       THEN [stops |-> TRUE, value |-> SCORE_DRAW]
       ELSE IF check_win(board, last_pos[1], last_pos[2], player_who_just_moved)
               \/ depth = self.max_search_depth
       THEN [stops |-> TRUE,
             value |-> calculate_score(self, board, last_pos, player_who_just_moved)]
       ELSE [stops |-> FALSE, value |-> 0]

\* The stopping conditions of _run_minimax, in the order of the code: win of
\* the player who just moved, depth limit, board full.  self is the instance
\* after "self.current_depth_tracker = depth".
\* [stops |-> whether the call returns here, value |-> what it returns].
base_case(self, board, depth, is_maximizing_player, last_pos) ==
    LET player_who_just_moved ==
            IF is_maximizing_player THEN PLAYER_HUMAN_ID ELSE PLAYER_AI_ID
        is_game_over == check_win(board, last_pos[1], last_pos[2], player_who_just_moved)
        valid_moves == get_legal_actions_for_copy(board)
    IN IF is_game_over
       THEN [stops |-> TRUE,
             value |-> calculate_score(self, board, last_pos, player_who_just_moved)]
       ELSE IF depth = self.max_search_depth
       THEN [stops |-> TRUE,
             value |-> calculate_score(self, board, last_pos, player_who_just_moved)]
       ELSE IF Len(valid_moves) = 0
       THEN [stops |-> TRUE, value |-> SCORE_DRAW]
       ELSE [stops |-> FALSE, value |-> 0]

\* The maximizing pass without the break.
max_update_no_prune(max_value, alpha, beta, current_value) ==
    LET new_max == IF current_value > max_value THEN current_value ELSE max_value
        new_alpha == IF new_max > alpha THEN new_max ELSE alpha
    IN [value |-> new_max, alpha |-> new_alpha, beta |-> beta, stop |-> FALSE]

\* One pass of the maximizing loop after the recursive call returned
\* current_value: the new max_value and alpha, and whether the loop breaks.
max_update(max_value, alpha, beta, current_value) ==
    LET new_max == IF current_value > max_value THEN current_value ELSE max_value
        new_alpha == IF new_max > alpha THEN new_max ELSE alpha
    IN [value |-> new_max, alpha |-> new_alpha, beta |-> beta,
        stop |-> new_alpha >= beta]

\* The minimizing pass with the break taken as soon as beta has come down,
\* whatever alpha is.
min_update_early_break(min_value, alpha, beta, current_value) ==
    LET new_min == IF current_value < min_value THEN current_value ELSE min_value
        new_beta == IF new_min < beta THEN new_min ELSE beta
    IN [value |-> new_min, alpha |-> alpha, beta |-> new_beta,
        stop |-> new_beta < beta]

\* One pass of the minimizing loop after the recursive call returned
\* current_value: the new min_value and beta, and whether the loop breaks.
min_update(min_value, alpha, beta, current_value) ==
    LET new_min == IF current_value < min_value THEN current_value ELSE min_value
        new_beta == IF new_min < beta THEN new_min ELSE beta
    IN [value |-> new_min, alpha |-> alpha, beta |-> new_beta,
        stop |-> alpha >= new_beta]

\* The pass of the loop of get_ai_move with "score >= best_score_found":
\* on equal scores the later column is kept.
root_update_last_wins(best_score_found, best_column_choice, alpha, col, score) ==
    LET better == score >= best_score_found
        new_best == IF better THEN score ELSE best_score_found
    IN [best_score_found |-> new_best,
        best_column_choice |-> IF better THEN col ELSE best_column_choice,
        alpha |-> IF new_best > alpha THEN new_best ELSE alpha]

\* One pass of the loop of get_ai_move after the recursive call returned
\* score for column col: step 4 ("if score > best_score_found") and the
\* update of alpha.
root_update(best_score_found, best_column_choice, alpha, col, score) ==
    LET better == score > best_score_found
        new_best == IF better THEN score ELSE best_score_found
    IN [best_score_found |-> new_best,
        best_column_choice |-> IF better THEN col ELSE best_column_choice,
        alpha |-> IF new_best > alpha THEN new_best ELSE alpha]

\* _run_minimax, and its two loops "for col in valid_moves" entered at the
\* i-th move with the running alpha or beta and max_value or min_value.
RECURSIVE run_minimax(_, _, _, _, _, _, _)
RECURSIVE max_loop(_, _, _, _, _, _, _, _)
RECURSIVE min_loop(_, _, _, _, _, _, _, _)

max_loop(self, board_in, depth, valid_moves, i, alpha, beta, max_value) ==
    IF i > Len(valid_moves)
    THEN [value |-> max_value, board |-> board_in, self |-> self]
    ELSE LET sim == simulate_move(board_in, valid_moves[i], PLAYER_AI_ID)
             call == run_minimax(self, sim.board, depth + 1, FALSE, sim.pos, alpha, beta)
             upd == max_update(max_value, alpha, beta, call.value)
             undone == undo_move(call.board, sim.pos[1], sim.pos[2])
         IN IF upd.stop
            THEN [value |-> upd.value, board |-> undone, self |-> call.self]
            ELSE max_loop(call.self, undone, depth, valid_moves, i + 1,
                          upd.alpha, upd.beta, upd.value)

min_loop(self, board_in, depth, valid_moves, i, alpha, beta, min_value) ==
    IF i > Len(valid_moves)
    THEN [value |-> min_value, board |-> board_in, self |-> self]
    ELSE LET sim == simulate_move(board_in, valid_moves[i], PLAYER_HUMAN_ID)
             call == run_minimax(self, sim.board, depth + 1, TRUE, sim.pos, alpha, beta)
             upd == min_update(min_value, alpha, beta, call.value)
             undone == undo_move(call.board, sim.pos[1], sim.pos[2])
         IN IF upd.stop
            THEN [value |-> upd.value, board |-> undone, self |-> call.self]
            ELSE min_loop(call.self, undone, depth, valid_moves, i + 1,
                          upd.alpha, upd.beta, upd.value)

run_minimax(self_in, board_in, depth, is_maximizing_player, last_pos, alpha, beta) ==
    LET self == [self_in EXCEPT !.current_depth_tracker = depth]
        base == base_case(self, board_in, depth, is_maximizing_player, last_pos)
        valid_moves == get_legal_actions_for_copy(board_in)
    IN IF base.stops
       THEN [value |-> base.value, board |-> board_in, self |-> self]
       ELSE IF is_maximizing_player
       THEN max_loop(self, board_in, depth, valid_moves, 1, alpha, beta, -Inf)
       ELSE min_loop(self, board_in, depth, valid_moves, 1, alpha, beta, Inf)

\* The loop "for col in possible_moves" of get_ai_move, entered at the i-th
\* move: [column, score, board, self] when the loop ends.
RECURSIVE root_loop(_, _, _, _, _, _, _)

\* The loop of get_ai_move with the depth of the root call read from the
\* instance (self.current_depth_tracker) instead of the literal 0.
root_loop_stale_depth(self, board_copy, possible_moves, i, alpha, best_score_found, best_column_choice) ==
    IF i > Len(possible_moves)
    THEN [column |-> best_column_choice, score |-> best_score_found,
          board |-> board_copy, self |-> self]
    ELSE LET col == possible_moves[i]
             sim == simulate_move(board_copy, col, PLAYER_AI_ID)
             call == run_minimax(self, sim.board, self.current_depth_tracker, FALSE,
                                 sim.pos, alpha, Inf)
             undone == undo_move(call.board, sim.pos[1], sim.pos[2])
             upd == root_update(best_score_found, best_column_choice, alpha,
                                col, call.value)
         IN root_loop(call.self, undone, possible_moves, i + 1,
                      upd.alpha, upd.best_score_found, upd.best_column_choice)

root_loop(self, board_copy, possible_moves, i, alpha, best_score_found, best_column_choice) ==
    IF i > Len(possible_moves)
    THEN [column |-> best_column_choice, score |-> best_score_found,
          board |-> board_copy, self |-> self]
    ELSE LET col == possible_moves[i]
             sim == simulate_move(board_copy, col, PLAYER_AI_ID)
             call == run_minimax(self, sim.board, 0, FALSE, sim.pos, alpha, Inf)
             undone == undo_move(call.board, sim.pos[1], sim.pos[2])
             upd == root_update(best_score_found, best_column_choice, alpha,
                                col, call.value)
         IN root_loop(call.self, undone, possible_moves, i + 1,
                      upd.alpha, upd.best_score_found, upd.best_column_choice)

\* get_ai_move: [column |-> the return value, score |-> best_score_found,
\* board |-> board_copy when it returns, self |-> the instance afterwards].
get_ai_move(self, current_board_state) ==
    root_loop(self, current_board_state,
              get_legal_actions_for_copy(current_board_state), 1, -Inf, -Inf, None)

\* The player who is not player_id.
OtherPlayer(player_id) ==
    IF player_id = PLAYER_HUMAN_ID THEN PLAYER_AI_ID ELSE PLAYER_HUMAN_ID

\* ---------------------------------------------------------------------
\* ConnectFourGUI.  self is the record of the fields of the instance but
\* board_logic and ai_agent, which the methods take and return beside it;
\* status_label is the text of the label, screen the widgets shown.
\*
\* Two calls run the event loop of Tk inside a handler: master.update() in
\* on_canvas_click, and messagebox.showinfo in trigger_game_over.  The
\* operators of the handlers give the instance as it is when such a call
\* is made, with waits |-> "update" or "dialog", and resume gives what the
\* handler does once the call has returned; waits |-> "none" is a handler
\* that ran to its end.
\* ---------------------------------------------------------------------

\* ConnectFourGUI.__init__: the start menu is shown, no game is running.
ConnectFourGUI ==
    [game_mode |-> "None", active_player |-> PLAYER_HUMAN_ID,
     is_game_running |-> FALSE, is_processing_move |-> FALSE,
     last_row |-> None, last_col |-> None,
     status_label |-> "", screen |-> "menu"]

\* initialize_game(selected_mode): [self, board] afterwards.
initialize_game(self, selected_mode) ==
    [self |-> [self EXCEPT
                  !.game_mode = selected_mode,
                  !.active_player = PLAYER_HUMAN_ID,
                  !.is_game_running = TRUE,
                  !.is_processing_move = FALSE,
                  !.screen = "game",
                  !.status_label =
                      IF selected_mode = "AI"
                      THEN "Human (Red) vs. AI (Yellow). Your Turn!"
                      ELSE "Player 1 (Red) vs. Player 2 (Yellow). P1's Turn!"],
     board |-> EmptyBoard]

\* trigger_game_over that shows the message and leaves the game running.
trigger_game_over_keeps_running(self, message_text) ==
    [self EXCEPT !.status_label = message_text]

\* trigger_game_over(message_text) up to messagebox.showinfo, its last
\* statement.
trigger_game_over(self, message_text) ==
    [self EXCEPT !.is_game_running = FALSE, !.status_label = message_text]

\* check_game_over with the draw tested before the win.
check_game_over_draw_first(self, board_data, player_id) ==
    IF Len(get_legal_actions(board_data)) = 0
    THEN [game_ended |-> TRUE, self |-> trigger_game_over(self, "It's a Draw!")]
    ELSE IF check_win(board_data, self.last_row, self.last_col, player_id)
    THEN [game_ended |-> TRUE,
          self |-> trigger_game_over(self,
                      IF self.game_mode = "AI"
                      THEN IF player_id = PLAYER_AI_ID THEN "AI Player (Yellow) Wins!"
                           ELSE "Human Player (Red) Wins!"
                      ELSE IF player_id = PLAYER_HUMAN_ID THEN "Player 1 (Red) Wins!"
                           ELSE "Player 2 (Yellow) Wins!")]
    ELSE [game_ended |-> FALSE, self |-> self]

\* check_game_over(player_id): [game_ended |-> the return value, self];
\* when the game has ended the message box of trigger_game_over is open
\* and the return is still to come.
check_game_over(self, board_data, player_id) ==
    LET has_won == check_win(board_data, self.last_row, self.last_col, player_id)
        winner_text ==
            IF self.game_mode = "AI"
            THEN IF player_id = PLAYER_AI_ID THEN "AI Player (Yellow) Wins!"
                 ELSE "Human Player (Red) Wins!"
            ELSE IF player_id = PLAYER_HUMAN_ID THEN "Player 1 (Red) Wins!"
                 ELSE "Player 2 (Yellow) Wins!"
        available == get_legal_actions(board_data)
    IN IF has_won
       THEN [game_ended |-> TRUE, self |-> trigger_game_over(self, winner_text)]
       ELSE IF Len(available) = 0
       THEN [game_ended |-> TRUE, self |-> trigger_game_over(self, "It's a Draw!")]
       ELSE [game_ended |-> FALSE, self |-> self]

\* on_canvas_click without the test of is_processing_move.
on_canvas_click_no_lock(self, board_data, column_clicked) ==
    IF self.is_game_running = FALSE
    THEN [self |-> self, board |-> board_data, waits |-> "none"]
    ELSE IF InList(column_clicked, get_legal_actions(board_data))
    THEN LET move == make_move(board_data, column_clicked, self.active_player)
             placed == [self EXCEPT !.is_processing_move = TRUE,
                                    !.last_row = move.result[1],
                                    !.last_col = move.result[2]]
             over == check_game_over(placed, move.board, self.active_player)
         IN IF over.game_ended
            THEN [self |-> over.self, board |-> move.board, waits |-> "dialog"]
            ELSE IF self.game_mode = "Human"
            THEN [self |-> [placed EXCEPT
                               !.active_player = OtherPlayer(self.active_player),
                               !.status_label =
                                   IF self.active_player = PLAYER_HUMAN_ID
                                   THEN "Player 2 (Yellow)'s Turn"
                                   ELSE "Player 1 (Red)'s Turn",
                               !.is_processing_move = FALSE],
                  board |-> move.board, waits |-> "none"]
            ELSE IF self.game_mode = "AI"
            THEN [self |-> [placed EXCEPT !.active_player = PLAYER_AI_ID,
                                          !.status_label = "AI is Thinking..."],
                  board |-> move.board, waits |-> "update"]
            ELSE [self |-> placed, board |-> move.board, waits |-> "none"]
    ELSE [self |-> [self EXCEPT !.is_processing_move = FALSE],
          board |-> board_data, waits |-> "none"]

\* on_canvas_click without the test of is_game_running.
on_canvas_click_no_check(self, board_data, column_clicked) ==
    IF self.is_processing_move = TRUE
    THEN [self |-> self, board |-> board_data, waits |-> "none"]
    ELSE IF InList(column_clicked, get_legal_actions(board_data))
    THEN LET move == make_move(board_data, column_clicked, self.active_player)
             placed == [self EXCEPT !.is_processing_move = TRUE,
                                    !.last_row = move.result[1],
                                    !.last_col = move.result[2]]
             over == check_game_over(placed, move.board, self.active_player)
         IN IF over.game_ended
            THEN [self |-> over.self, board |-> move.board, waits |-> "dialog"]
            ELSE IF self.game_mode = "Human"
            THEN [self |-> [placed EXCEPT
                               !.active_player = OtherPlayer(self.active_player),
                               !.status_label =
                                   IF self.active_player = PLAYER_HUMAN_ID
                                   THEN "Player 2 (Yellow)'s Turn"
                                   ELSE "Player 1 (Red)'s Turn",
                               !.is_processing_move = FALSE],
                  board |-> move.board, waits |-> "none"]
            ELSE IF self.game_mode = "AI"
            THEN [self |-> [placed EXCEPT !.active_player = PLAYER_AI_ID,
                                          !.status_label = "AI is Thinking..."],
                  board |-> move.board, waits |-> "update"]
            ELSE [self |-> placed, board |-> move.board, waits |-> "none"]
    ELSE [self |-> [self EXCEPT !.is_processing_move = FALSE],
          board |-> board_data, waits |-> "none"]

\* on_canvas_click for a click on column_clicked (event.x // SQUARE_SIZE),
\* up to its return, to master.update() or to the message box of
\* check_game_over: [self, board, waits].
on_canvas_click(self, board_data, column_clicked) ==
    IF self.is_game_running = FALSE
    THEN [self |-> self, board |-> board_data, waits |-> "none"]
    ELSE IF self.is_processing_move = TRUE
    THEN [self |-> self, board |-> board_data, waits |-> "none"]
    ELSE IF InList(column_clicked, get_legal_actions(board_data))
    THEN LET move == make_move(board_data, column_clicked, self.active_player)
             placed == [self EXCEPT !.is_processing_move = TRUE,
                                    !.last_row = move.result[1],
                                    !.last_col = move.result[2]]
             over == check_game_over(placed, move.board, self.active_player)
         IN IF over.game_ended
            THEN [self |-> over.self, board |-> move.board, waits |-> "dialog"]
            ELSE IF self.game_mode = "Human"
            THEN [self |-> [placed EXCEPT
                               !.active_player = OtherPlayer(self.active_player),
                               !.status_label =
                                   IF self.active_player = PLAYER_HUMAN_ID
                                   THEN "Player 2 (Yellow)'s Turn"
                                   ELSE "Player 1 (Red)'s Turn",
                               !.is_processing_move = FALSE],
                  board |-> move.board, waits |-> "none"]
            ELSE IF self.game_mode = "AI"
            THEN [self |-> [placed EXCEPT !.active_player = PLAYER_AI_ID,
                                          !.status_label = "AI is Thinking..."],
                  board |-> move.board, waits |-> "update"]
            ELSE [self |-> placed, board |-> move.board, waits |-> "none"]
    ELSE [self |-> [self EXCEPT !.is_processing_move = FALSE],
          board |-> board_data, waits |-> "none"]

\* The rest of a handler once the call it waited in has returned, self
\* being the instance as the events handled meanwhile have left it:
\* after master.update(), on_canvas_click schedules run_ai_turn with
\* master.after(100, self.run_ai_turn); after the message box, on_canvas_click
\* and run_ai_turn set is_processing_move = False and return.
\* [self, after |-> the number of callbacks scheduled].
resume(self, waits) ==
    [self |-> IF waits = "dialog" THEN [self EXCEPT !.is_processing_move = FALSE]
              ELSE self,
     after |-> IF waits = "update" THEN 1 ELSE 0]

\* run_ai_turn_move without the unlock that follows the switch back to the
\* human ("is_processing_move = False" at the end of run_ai_turn).
run_ai_turn_move_keeps_lock(self, out, board_data) ==
    IF out.column = None
    THEN [self |-> self, agent |-> out.self, board |-> board_data, waits |-> "none"]
    ELSE LET move == make_move(board_data, out.column, PLAYER_AI_ID)
             placed == [self EXCEPT !.last_row = move.result[1],
                                    !.last_col = move.result[2]]
             over == check_game_over(placed, move.board, PLAYER_AI_ID)
         IN IF over.game_ended
            THEN [self |-> over.self, agent |-> out.self, board |-> move.board,
                  waits |-> "dialog"]
            ELSE [self |-> [placed EXCEPT
                               !.active_player = PLAYER_HUMAN_ID,
                               !.status_label = "Your Turn (Red)"],
                  agent |-> out.self, board |-> move.board, waits |-> "none"]

\* run_ai_turn from "result = self.board_logic.make_move(best_col, ...)" on,
\* out being what get_ai_move returned and did to the agent, up to its
\* return or to the message box of check_game_over.  With no legal column
\* best_col is None, make_move(None, ...) returns None and "result[0]"
\* raises: the callback ends there, nothing else written.
run_ai_turn_move(self, out, board_data) ==
    IF out.column = None
    THEN [self |-> self, agent |-> out.self, board |-> board_data, waits |-> "none"]
    ELSE LET move == make_move(board_data, out.column, PLAYER_AI_ID)
             placed == [self EXCEPT !.last_row = move.result[1],
                                    !.last_col = move.result[2]]
             over == check_game_over(placed, move.board, PLAYER_AI_ID)
         IN IF over.game_ended
            THEN [self |-> over.self, agent |-> out.self, board |-> move.board,
                  waits |-> "dialog"]
            ELSE [self |-> [placed EXCEPT
                               !.active_player = PLAYER_HUMAN_ID,
                               !.status_label = "Your Turn (Red)",
                               !.is_processing_move = FALSE],
                  agent |-> out.self, board |-> move.board, waits |-> "none"]

\* run_ai_turn, up to its return or to the message box of check_game_over:
\* [self, agent, board, waits].
run_ai_turn(self, agent, board_data) ==
    IF self.is_game_running = FALSE
    THEN [self |-> [self EXCEPT !.is_processing_move = FALSE],
          agent |-> agent, board |-> board_data, waits |-> "none"]
    ELSE run_ai_turn_move(self, get_ai_move(agent, board_data), board_data)

\* reset_game: back to the start menu.
reset_game(self) ==
    [self EXCEPT !.is_game_running = FALSE, !.game_mode = "None",
                 !.is_processing_move = FALSE, !.screen = "menu"]

\* ---------------------------------------------------------------------
\* State
\* ---------------------------------------------------------------------
VARIABLES
    board,      \* ConnectFourBoard.board, the authoritative grid
    n_calls,    \* the number of pieces placed since the initial state
    ai_agent,   \* the MinimaxAI instance (self)
    pc,         \* where a get_ai_move call in progress stands ("idle": none)
    grids,      \* the grid objects of a call: the argument and board_copy
    root,       \* the local variables of get_ai_move
    frames,     \* the stack of _run_minimax activations, the innermost last
    ret,        \* the value the last _run_minimax activation returned
    result,     \* the return value of get_ai_move
    returned,   \* history: the get_ai_move calls made on this board so far
    root_values,\* for the board searched: the unpruned minimax value of each move
    game_app,   \* the ConnectFourGUI instance (self) but for its two objects
    timers,     \* the number of run_ai_turn callbacks scheduled with after()
    handlers    \* the handlers waiting in master.update() ("update") or in
                \* the message box ("dialog"), the innermost last

board_vars == <<board, n_calls>>
search_vars == <<ai_agent, pc, grids, root, frames, ret, result>>
call_vars == <<returned, root_values>>
gui_vars == <<game_app, timers, handlers>>
vars == <<board, n_calls, ai_agent, pc, grids, root, frames, ret, result,
          returned, root_values, game_app, timers, handlers>>

\* No get_ai_move call in progress: no grid object, no local variable.
NoGrids == [current_board_state |-> EmptyBoard, board_copy |-> EmptyBoard]

NoRoot ==
    [best_score_found |-> -Inf, best_column_choice |-> None, alpha |-> -Inf,
     beta |-> Inf, board_copy |-> "board_copy", possible_moves |-> <<>>,
     i |-> 1, pos |-> <<None, None>>]

SearchIdle ==
    /\ pc = "idle"
    /\ grids = NoGrids
    /\ root = NoRoot
    /\ frames = <<>>
    /\ ret = 0
    /\ result = None
    /\ returned = <<>>
    /\ root_values = <<>>

\* No window: the board and the search are driven directly.
NoWindow ==
    /\ game_app = ConnectFourGUI
    /\ timers = 0
    /\ handlers = <<>>

\* ---------------------------------------------------------------------
\* Recorded games: the columns clicked, Red (PLAYER_HUMAN_ID) first, the
\* players alternating.  No placement of a recorded game wins.
\* ---------------------------------------------------------------------

\* 38 placements; four cells stay empty, in the columns 2, 5, 5 and 6.
RecordedEndgame ==
    <<4, 5, 6, 4, 4, 4, 3, 4, 1, 2, 3, 2, 5, 3, 0, 6, 1, 1, 4, 6, 0, 2, 2, 3,
      0, 5, 6, 0, 3, 1, 1, 0, 0, 5, 3, 6, 1, 2>>

\* 12 placements; the column heights are 3, 2, 1, 0, 1, 2, 3.
RecordedStaircase == <<0, 5, 6, 0, 4, 6, 1, 2, 0, 5, 6, 1>>

\* 33 placements; the columns 2, 4 and 6 are open, with 3, 2 and 4 empty
\* cells; Yellow to move.
RecordedThreeColumns ==
    <<1, 4, 5, 1, 0, 0, 2, 3, 3, 3, 6, 4, 4, 5, 3, 1, 0, 5, 6, 2, 3, 2, 3, 5,
      0, 1, 1, 1, 5, 4, 5, 0, 0>>

\* 31 placements; the columns 1, 2, 4 and 6 are open, with 2, 3, 2 and 4
\* empty cells; Yellow to move.
RecordedFourColumns ==
    <<3, 5, 1, 0, 4, 1, 0, 6, 6, 4, 4, 5, 5, 3, 5, 1, 0, 2, 4, 3, 2, 5, 3, 3,
      1, 0, 3, 0, 2, 0, 5>>

\* The grid after the clicks i.. of a recorded game, player_id placing first:
\* a click on a legal column places a piece and passes the turn, any other
\* click is ignored.
RECURSIVE replay(_, _, _, _)
replay(grid, clicks, i, player_id) ==
    IF i > Len(clicks) THEN grid
    ELSE LET placed == make_move(grid, clicks[i], player_id)
         IN IF placed.result = NoResult
            THEN replay(grid, clicks, i + 1, player_id)
            ELSE replay(placed.board, clicks, i + 1,
                        IF player_id = PLAYER_HUMAN_ID THEN PLAYER_AI_ID
                        ELSE PLAYER_HUMAN_ID)

Replayed(clicks) == replay(EmptyBoard, clicks, 1, PLAYER_HUMAN_ID)

\* ---------------------------------------------------------------------
\* BoardSpec: a ConnectFourBoard driven through make_move, any column
\* (legal, full or out of range) and either player at each call.
\* ---------------------------------------------------------------------
MaxBoardCalls == 4

\* The column arguments tried: every column, and one off each end.
ColumnArgs == (-1)..COLS

BoardSeeds == {<<>>, RecordedStaircase, RecordedEndgame}

BoardInit ==
    /\ board \in {Replayed(clicks) : clicks \in BoardSeeds}
    /\ n_calls = 0
    /\ ai_agent = MinimaxAI
    /\ SearchIdle
    /\ NoWindow

\* board_logic.make_move(column_index, player_id)
MakeMoveCall(column_index, player_id) ==
    LET move == make_move(board, column_index, player_id)
    IN /\ n_calls < MaxBoardCalls
       /\ board' = move.board
       /\ n_calls' = IF move.result = NoResult THEN n_calls ELSE n_calls + 1
       /\ pc = "idle"
       /\ UNCHANGED <<search_vars, call_vars, gui_vars>>

BoardNext ==
    \E column_index \in ColumnArgs, player_id \in Players :
        MakeMoveCall(column_index, player_id)

BoardSpec == BoardInit /\ [][BoardNext]_vars

\* ---------------------------------------------------------------------
\* SearchSpec: get_ai_move step by step.  One step runs the code between
\* two calls or returns of _run_minimax; the stack of activations is
\* frames, and every grid is an object of grids reached through a
\* reference, as in the program.  The instance is the program's,
\* MinimaxAI() with max_search_depth = AI_MAX_SEARCH_DEPTH; the boards are
\* late positions of games, where a search of that depth is a few hundred
\* calls.
\* ---------------------------------------------------------------------
MaxSetupCalls == 2

SearchSeeds == {RecordedEndgame, RecordedThreeColumns, RecordedFourColumns}

\* No copy: board_copy is the caller's grid object itself.
deepcopy_alias(objects, ref) == [grids |-> objects, ref |-> ref]

\* copy.deepcopy(current_board_state): a new grid object with the cells of
\* the one copied; [grids |-> the objects afterwards, ref |-> the new one].
deepcopy(objects, ref) ==
    [grids |-> [objects EXCEPT !.board_copy = objects[ref]], ref |-> "board_copy"]

\* The activation of _run_minimax(board, depth, is_maximizing_player,
\* last_pos, alpha, beta) when it is called; valid_moves, the loop index i,
\* the running max_value or min_value and the position (r, c) of the move
\* being tried are set as the body runs.
minimax_call(board_ref, depth, is_maximizing_player, last_pos, alpha, beta) ==
    [board |-> board_ref, depth |-> depth,
     is_maximizing_player |-> is_maximizing_player, last_pos |-> last_pos,
     alpha |-> alpha, beta |-> beta,
     valid_moves |-> <<>>, i |-> 1, value |-> 0, pos |-> <<None, None>>]

\* The recursive call made with depth in place of depth + 1.
recursive_call_same_depth(f, pos) ==
    minimax_call(f.board, f.depth, ~f.is_maximizing_player, pos, f.alpha, f.beta)

\* The recursive call of the loops of _run_minimax for the move placed at
\* pos: depth + 1, the other side to move, the running alpha and beta.
recursive_call(f, pos) ==
    minimax_call(f.board, f.depth + 1, ~f.is_maximizing_player, pos, f.alpha, f.beta)

Top == frames[Len(frames)]
Pop == SubSeq(frames, 1, Len(frames) - 1)

SearchInit ==
    /\ board \in {Replayed(clicks) : clicks \in SearchSeeds}
    /\ n_calls = 0
    /\ ai_agent = MinimaxAI
    /\ SearchIdle
    /\ NoWindow

\* A make_move call on the board while no search is running.
SetupCall(column_index, player_id) ==
    /\ n_calls < MaxSetupCalls
    /\ MakeMoveCall(column_index, player_id)

\* get_ai_move is called with a copy of the board's grid, as run_ai_turn
\* does: everything up to the loop over possible_moves.
GetAiMoveCall ==
    /\ pc = "idle"
    /\ LET passed == [grids EXCEPT !.current_board_state = board]
           copied == deepcopy(passed, "current_board_state")
       IN /\ grids' = copied.grids
          /\ root' = [best_score_found |-> -Inf, best_column_choice |-> None,
                      alpha |-> -Inf, beta |-> Inf, board_copy |-> copied.ref,
                      possible_moves |->
                          get_legal_actions_for_copy(copied.grids[copied.ref]),
                      i |-> 1, pos |-> <<None, None>>]
    /\ pc' = "root_loop"
    /\ UNCHANGED <<board_vars, call_vars, gui_vars, ai_agent, frames, ret, result>>

\* get_ai_move, one pass of the loop up to the call of _run_minimax.
RootSimulate ==
    /\ pc = "root_loop"
    /\ root.i <= Len(root.possible_moves)
    /\ LET sim == simulate_move(grids[root.board_copy], root.possible_moves[root.i],
                                PLAYER_AI_ID)
       IN /\ grids' = [grids EXCEPT ![root.board_copy] = sim.board]
          /\ root' = [root EXCEPT !.pos = sim.pos]
          /\ frames' = <<minimax_call(root.board_copy, 0, FALSE, sim.pos,
                                      root.alpha, root.beta)>>
    /\ pc' = "enter"
    /\ UNCHANGED <<board_vars, call_vars, gui_vars, ai_agent, ret, result>>

\* get_ai_move, the rest of the pass once _run_minimax has returned score.
RootResume ==
    /\ pc = "returned"
    /\ frames = <<>>
    /\ LET upd == root_update(root.best_score_found, root.best_column_choice,
                              root.alpha, root.possible_moves[root.i], ret)
       IN /\ grids' = [grids EXCEPT ![root.board_copy] =
                          undo_move(grids[root.board_copy], root.pos[1], root.pos[2])]
          /\ root' = [root EXCEPT !.best_score_found = upd.best_score_found,
                                  !.best_column_choice = upd.best_column_choice,
                                  !.alpha = upd.alpha,
                                  !.i = root.i + 1]
    /\ pc' = "root_loop"
    /\ UNCHANGED <<board_vars, call_vars, gui_vars, ai_agent, frames, ret, result>>

\* get_ai_move, "return best_column_choice" when the loop has ended.
RootReturn ==
    /\ pc = "root_loop"
    /\ root.i > Len(root.possible_moves)
    /\ result' = root.best_column_choice
    /\ pc' = "done"
    /\ UNCHANGED <<board_vars, call_vars, gui_vars, ai_agent, grids, root, frames, ret>>

\* The caller goes on as run_ai_turn does, with
\* board_logic.make_move(best_col, PLAYER_AI_ID): the piece goes to the
\* column get_ai_move returned, and nowhere when it returned None.  The
\* grids and the locals of the call are gone.
CallerContinues ==
    /\ pc = "done"
    /\ LET move == make_move(board, result, PLAYER_AI_ID)
       IN /\ board' = move.board
          /\ n_calls' = IF move.result = NoResult THEN n_calls ELSE n_calls + 1
    /\ pc' = "idle"
    /\ grids' = NoGrids
    /\ root' = NoRoot
    /\ ret' = 0
    /\ result' = None
    /\ UNCHANGED <<call_vars, gui_vars, ai_agent, frames>>

\* _run_minimax from its first line to its stopping conditions: it returns
\* there, or sets up the loop over valid_moves.
Enter ==
    /\ pc = "enter"
    /\ LET f == Top
           self == [ai_agent EXCEPT !.current_depth_tracker = f.depth]
           base == base_case(self, grids[f.board], f.depth,
                             f.is_maximizing_player, f.last_pos)
       IN /\ ai_agent' = self
          /\ IF base.stops
             THEN /\ ret' = base.value
                  /\ frames' = Pop
                  /\ pc' = "returned"
             ELSE /\ frames' = [frames EXCEPT ![Len(frames)] =
                        [f EXCEPT !.valid_moves = get_legal_actions_for_copy(grids[f.board]),
                                  !.value = IF f.is_maximizing_player THEN -Inf ELSE Inf,
                                  !.i = 1]]
                  /\ pc' = "loop"
                  /\ UNCHANGED ret
    /\ UNCHANGED <<board_vars, call_vars, gui_vars, grids, root, result>>

\* _run_minimax, one pass of either loop up to the recursive call.
LoopSimulate ==
    /\ pc = "loop"
    /\ Top.i <= Len(Top.valid_moves)
    /\ LET f == Top
           sim == simulate_move(grids[f.board], f.valid_moves[f.i],
                                IF f.is_maximizing_player THEN PLAYER_AI_ID
                                ELSE PLAYER_HUMAN_ID)
       IN /\ grids' = [grids EXCEPT ![f.board] = sim.board]
          /\ frames' = Append([frames EXCEPT ![Len(frames)] = [f EXCEPT !.pos = sim.pos]],
                              recursive_call(f, sim.pos))
    /\ pc' = "enter"
    /\ UNCHANGED <<board_vars, call_vars, gui_vars, ai_agent, root, ret, result>>

\* _run_minimax, the rest of the pass once the recursive call has returned
\* current_value: the running value, the undo, alpha or beta, and the break,
\* after which the activation returns its running value.
LoopResume ==
    /\ pc = "returned"
    /\ frames # <<>>
    /\ LET f == Top
           upd == IF f.is_maximizing_player
                  THEN max_update(f.value, f.alpha, f.beta, ret)
                  ELSE min_update(f.value, f.alpha, f.beta, ret)
       IN /\ grids' = [grids EXCEPT ![f.board] =
                          undo_move(grids[f.board], f.pos[1], f.pos[2])]
          /\ IF upd.stop
             THEN /\ ret' = upd.value
                  /\ frames' = Pop
                  /\ pc' = "returned"
             ELSE /\ frames' = [frames EXCEPT ![Len(frames)] =
                        [f EXCEPT !.value = upd.value, !.alpha = upd.alpha,
                                  !.beta = upd.beta, !.i = f.i + 1]]
                  /\ pc' = "loop"
                  /\ UNCHANGED ret
    /\ UNCHANGED <<board_vars, call_vars, gui_vars, ai_agent, root, result>>

\* _run_minimax, "return max_value" or "return min_value" when the loop
\* has run through valid_moves.
LoopReturn ==
    /\ pc = "loop"
    /\ Top.i > Len(Top.valid_moves)
    /\ ret' = Top.value
    /\ frames' = Pop
    /\ pc' = "returned"
    /\ UNCHANGED <<board_vars, call_vars, gui_vars, ai_agent, grids, root, result>>

SearchStep ==
    \/ RootSimulate
    \/ RootResume
    \/ RootReturn
    \/ Enter
    \/ LoopSimulate
    \/ LoopResume
    \/ LoopReturn

SearchNext ==
    \/ \E column_index \in ColumnArgs, player_id \in Players :
          SetupCall(column_index, player_id)
    \/ GetAiMoveCall
    \/ SearchStep
    \/ CallerContinues

SearchSpec == SearchInit /\ [][SearchNext]_vars

\* The search runs on without a pause: a step that can be taken is taken.
FairSearchSpec == SearchSpec /\ WF_vars(SearchStep)

\* ---------------------------------------------------------------------
\* OpeningSpec: the first search of the program as it is configured, step
\* by step: the empty board, max_search_depth = AI_MAX_SEARCH_DEPTH.
\* ---------------------------------------------------------------------
OpeningInit ==
    /\ board = EmptyBoard
    /\ n_calls = 0
    /\ ai_agent = MinimaxAI
    /\ SearchIdle
    /\ NoWindow

OpeningNext ==
    \/ GetAiMoveCall
    \/ SearchStep

OpeningSpec == OpeningInit /\ [][OpeningNext]_vars

\* ---------------------------------------------------------------------
\* Properties of the search, step by step
\* ---------------------------------------------------------------------

\* C12 as stated: on the empty board with max_search_depth = 7 get_ai_move
\* returns column 3.  It returns column 2: the root calls _run_minimax with
\* depth 0, so the search reaches 8 plies below the empty board, not 7.
C12_OpensInCenter ==
    (pc = "done" /\ board = EmptyBoard
       /\ ai_agent.max_search_depth = AI_MAX_SEARCH_DEPTH) => result = COLS \div 2

\* The columns whose top cell is empty.
OpenColumns(grid) == {c \in ColIdx : grid[0][c] = EMPTY_SLOT}

\* No piece floats: an occupied cell is on the bottom row or has an
\* occupied cell under it.
Gravity(grid) ==
    \A r \in RowIdx, c \in ColIdx :
        grid[r][c] # EMPTY_SLOT => (r = ROWS - 1 \/ grid[r + 1][c] # EMPTY_SLOT)

\* C1: from the call of get_ai_move to its return and after it, the grid
\* the caller passed holds what it held at the call; the search writes to
\* board_copy only.
C1_CallerGridUnchanged ==
    pc # "idle" => grids.current_board_state = board

\* C1 witness: get_ai_move has returned a column after a search that went
\* at least one level down, and the caller's grid is a board with pieces.
C1_Witness ==
    /\ pc = "done"
    /\ result \in ColIdx
    /\ ai_agent.current_depth_tracker >= 1
    /\ grids.current_board_state = board
    /\ board # EmptyBoard

\* C3: after any sequence of make_move calls, accepted or rejected, by
\* either player, no piece of the board floats; and none floats in the
\* working copy of a search at any point of the search.
C3_GravityInvariant ==
    /\ Gravity(board)
    /\ pc # "idle" => Gravity(grids[root.board_copy])

\* C3 witness: a search three moves deep into its working copy, on a board
\* reached through make_move calls.
C3_Witness ==
    /\ n_calls = MaxSetupCalls
    /\ pc = "enter"
    /\ Len(frames) >= 3
    /\ grids[root.board_copy] # board

\* Every activation on the stack has the depth of its place in the stack
\* (the call of get_ai_move has depth 0, a recursive call one more than its
\* caller), at most max_search_depth, and has tried at most the COLS
\* columns of its valid_moves.
DepthDiscipline ==
    \A k \in 1..Len(frames) :
        /\ frames[k].depth = k - 1
        /\ k > 1 => frames[k].depth = frames[k - 1].depth + 1
        /\ frames[k].depth <= ai_agent.max_search_depth
        /\ Len(frames[k].valid_moves) <= COLS
        /\ frames[k].i <= Len(frames[k].valid_moves) + 1

\* C9: every _run_minimax activation has a depth one greater than its
\* caller's and at most max_search_depth, and loops over at most COLS
\* moves; and every call of get_ai_move returns.
C9_SearchTerminates ==
    /\ []DepthDiscipline
    /\ (pc # "idle") ~> (pc = "done")

\* C9 witness: a call at depth max_search_depth, the deepest there is, with
\* max_search_depth + 1 activations on the stack, in a search whose root
\* loops over four columns.
C9_Witness ==
    /\ pc = "enter"
    /\ Top.depth = ai_agent.max_search_depth
    /\ Len(frames) = AI_MAX_SEARCH_DEPTH + 1
    /\ Len(root.possible_moves) = 4

\* The search as a function and the search step by step agree: when
\* get_ai_move returns, its value, best_score_found, the instance and
\* board_copy are those of get_ai_move(ai_agent, board) for every tracker
\* value the instance may have held when the call began.
StepsAgreeWithFunction ==
    pc = "done" =>
        \E t \in 0..ai_agent.max_search_depth :
            LET out == get_ai_move([ai_agent EXCEPT !.current_depth_tracker = t], board)
            IN /\ result = out.column
               /\ root.best_score_found = out.score
               /\ grids[root.board_copy] = out.board
               /\ ai_agent = out.self

\* The grid with the piece of player_id at pos.
Placed(grid, pos, player_id) == [grid EXCEPT ![pos[1]][pos[2]] = player_id]

\* The position get_ai_move was given, plus the root move being evaluated
\* and the moves being tried by the k outermost activations of
\* _run_minimax: the grid on which activation k + 1 was entered.
RECURSIVE EntryBoard(_)
EntryBoard(k) ==
    IF k = 0 THEN Placed(board, root.pos, PLAYER_AI_ID)
    ELSE Placed(EntryBoard(k - 1), frames[k].pos,
                IF frames[k].is_maximizing_player THEN PLAYER_AI_ID
                ELSE PLAYER_HUMAN_ID)

\* C16: the working board when a _run_minimax call returns, by the end of
\* its loop or by an alpha-beta break, is cell for cell the board on which
\* the call was entered, and between two passes of a loop the board is the
\* one the activation was entered on; the working copy equals the original
\* position after each root move of get_ai_move has been evaluated and
\* undone.
C16_MutateUndoDiscipline ==
    /\ pc \in {"root_loop", "done"} => grids[root.board_copy] = board
    /\ pc \in {"enter", "loop"} => grids[Top.board] = EntryBoard(Len(frames) - 1)
    /\ pc = "returned" => grids[root.board_copy] = EntryBoard(Len(frames))

\* C16 witness: deep in the search an activation is about to leave its loop
\* through the alpha-beta break with columns left untried, on a working
\* board that holds the moves simulated on the way down.
C16_Witness ==
    /\ pc = "returned"
    /\ Len(frames) >= 2
    /\ Top.i < Len(Top.valid_moves)
    /\ (IF Top.is_maximizing_player
        THEN max_update(Top.value, Top.alpha, Top.beta, ret)
        ELSE min_update(Top.value, Top.alpha, Top.beta, ret)).stop
    /\ grids[root.board_copy] # board

\* The static evaluation of a grid without a win: 3 for each AI piece and
\* -3 for each human piece in the centre column.
CenterScore(grid) ==
    3 * Cardinality({r \in RowIdx : grid[r][COLS \div 2] = PLAYER_AI_ID})
      - 3 * Cardinality({r \in RowIdx : grid[r][COLS \div 2] = PLAYER_HUMAN_ID})

\* The piece at pos lies in a line of four or more pieces of its owner.
WinsAt(grid, pos) ==
    /\ grid[pos[1]][pos[2]] # EMPTY_SLOT
    /\ \E dir \in {<<1, 0>>, <<0, 1>>, <<1, 1>>, <<1, -1>>} :
          \E start \in 0..3 :
              \A k \in 0..3 :
                  LET r == pos[1] + (k - start) * dir[1]
                      c == pos[2] + (k - start) * dir[2]
                  IN /\ r \in RowIdx
                     /\ c \in ColIdx
                     /\ grid[r][c] = grid[pos[1]][pos[2]]

\* C17: the stopping conditions of _run_minimax are tried in the order win,
\* depth cutoff, draw.  When the last placement wins for the player who
\* made it the call returns the win or loss score, also at
\* depth = max_search_depth and on a full board; otherwise at
\* depth = max_search_depth it returns the centre-column heuristic, also on
\* a full board; it returns SCORE_DRAW for a full board only without a win
\* and with depth < max_search_depth; in every other case it goes on to
\* its loop.
C17_TerminalCheckOrder ==
    [][pc = "enter" =>
         LET f == Top
             grid == grids[f.board]
             won == WinsAt(grid, f.last_pos)
             cutoff == f.depth = ai_agent.max_search_depth
             full == OpenColumns(grid) = {}
         IN /\ won =>
                 /\ pc' = "returned"
                 /\ ret' = IF f.is_maximizing_player
                           THEN -SCORE_WIN - (ai_agent.max_search_depth - f.depth)
                           ELSE SCORE_WIN + (ai_agent.max_search_depth - f.depth)
            /\ (~won /\ cutoff) => (pc' = "returned" /\ ret' = CenterScore(grid))
            /\ (~won /\ ~cutoff /\ full) => (pc' = "returned" /\ ret' = SCORE_DRAW)
            /\ (~won /\ ~cutoff /\ ~full) => pc' = "loop"
      ]_vars

\* C17 witness: a call entered at depth = max_search_depth on a full board
\* whose last placement wins has returned the win or loss score.
C17_Witness ==
    /\ pc = "returned"
    /\ OpenColumns(grids[root.board_copy]) = {}
    /\ ai_agent.current_depth_tracker = ai_agent.max_search_depth
    /\ ret \in {SCORE_WIN, -SCORE_WIN}

\* A call entered at depth = max_search_depth on a full board without a
\* win has returned the heuristic, which is not the draw score.
CutoffOnFullBoard ==
    /\ pc = "returned"
    /\ OpenColumns(grids[root.board_copy]) = {}
    /\ ai_agent.current_depth_tracker = ai_agent.max_search_depth
    /\ ret \notin {SCORE_WIN, -SCORE_WIN, SCORE_DRAW}

\* A call entered above the depth limit on a full board without a win has
\* returned the draw score.
DrawInSearch ==
    /\ pc = "returned"
    /\ OpenColumns(grids[root.board_copy]) = {}
    /\ ai_agent.current_depth_tracker < ai_agent.max_search_depth
    /\ ret = SCORE_DRAW

\* The absolute value.
Abs(x) == IF x < 0 THEN -x ELSE x

\* The instance as _calculate_score finds it in a call of depth d.
AtDepth(self, d) == [self EXCEPT !.current_depth_tracker = d]

\* C18: a win of the AI detected by the call of depth d scores
\* SCORE_WIN + (max_search_depth - d) and a win of the human
\* -SCORE_WIN - (max_search_depth - d), current_depth_tracker being the
\* depth of the call when _calculate_score reads it; for the same winning
\* position a smaller depth gives the AI's win a strictly higher score and
\* the human's win a strictly lower one; and the score of a win or loss is
\* larger in magnitude than any heuristic score, which is at most 3 * ROWS.
C18_DepthBias ==
    [][pc = "enter" =>
         LET f == Top
             grid == grids[f.board]
             mover == IF f.is_maximizing_player THEN PLAYER_HUMAN_ID ELSE PLAYER_AI_ID
             bias == ai_agent.max_search_depth - f.depth
         IN /\ ai_agent'.current_depth_tracker = f.depth
            /\ IF WinsAt(grid, f.last_pos)
               THEN /\ pc' = "returned"
                    /\ ret' = IF mover = PLAYER_AI_ID THEN SCORE_WIN + bias
                              ELSE -SCORE_WIN - bias
                    /\ Abs(ret') > 3 * ROWS
                    /\ \A d1, d2 \in 0..ai_agent.max_search_depth :
                          d1 < d2 =>
                             LET shallow == calculate_score(AtDepth(ai_agent, d1), grid,
                                                            f.last_pos, mover)
                                 deep == calculate_score(AtDepth(ai_agent, d2), grid,
                                                         f.last_pos, mover)
                             IN IF mover = PLAYER_AI_ID THEN shallow > deep
                                ELSE deep > shallow
               ELSE f.depth = ai_agent.max_search_depth =>
                       /\ ret' = calculate_score(ai_agent', grid, f.last_pos, mover)
                       /\ Abs(ret') <= 3 * ROWS
      ]_vars

\* C18 witness: the call of depth 1 has found the human's winning
\* placement and returned -SCORE_WIN - (AI_MAX_SEARCH_DEPTH - 1).
C18_Witness ==
    /\ pc = "returned"
    /\ Len(frames) = 1
    /\ WinsAt(grids[root.board_copy], Top.pos)
    /\ ai_agent.max_search_depth = AI_MAX_SEARCH_DEPTH
    /\ ai_agent.current_depth_tracker = 1
    /\ ret = -SCORE_WIN - (AI_MAX_SEARCH_DEPTH - 1)

\* The AI's winning root move, found at depth 0, has scored
\* SCORE_WIN + max_search_depth.
ShallowWin ==
    /\ pc = "returned"
    /\ frames = <<>>
    /\ WinsAt(grids[root.board_copy], root.pos)
    /\ ai_agent.max_search_depth > 0
    /\ ret = SCORE_WIN + ai_agent.max_search_depth

\* ---------------------------------------------------------------------
\* Properties of the board
\* ---------------------------------------------------------------------

\* s is strictly ascending.
Ascending(s) == \A i \in 1..(Len(s) - 1) : s[i] < s[i + 1]

\* C4: on every reachable board get_legal_actions lists, in ascending order,
\* exactly the columns whose top cell is empty; make_move places a piece on
\* exactly those, and on every other column argument (full, negative or
\* >= COLS) it returns None and leaves the whole grid as it was.
C4_LegalityCompleteness ==
    /\ Ascending(get_legal_actions(board))
    /\ {get_legal_actions(board)[i] : i \in 1..Len(get_legal_actions(board))}
         = OpenColumns(board)
    /\ \A column_index \in ColumnArgs, player_id \in Players :
          LET move == make_move(board, column_index, player_id)
          IN IF InList(column_index, get_legal_actions(board))
             THEN /\ move.result # NoResult
                  /\ move.board # board
             ELSE /\ move.result = NoResult
                  /\ move.board = board

\* C4 witness: a board with a full column and an open one, so that both a
\* rejected and an accepted make_move are among the calls checked.
C4_Witness ==
    /\ n_calls > 0
    /\ \E c \in ColIdx : board[0][c] # EMPTY_SLOT
    /\ \E c \in ColIdx : board[0][c] = EMPTY_SLOT

\* The cells in which two grids differ.
ChangedCells(before, after) ==
    {pos \in RowIdx \X ColIdx : before[pos[1]][pos[2]] # after[pos[1]][pos[2]]}

\* The empty cell of the column with the largest row index.
LowestEmptyCell(grid, col) ==
    CHOOSE row \in RowIdx :
        /\ grid[row][col] = EMPTY_SLOT
        /\ \A other \in RowIdx : grid[other][col] = EMPTY_SLOT => other <= row

\* C15: make_move on a legal column changes exactly one cell of the board,
\* from EMPTY_SLOT to player_id; the cell is the lowest empty cell of the
\* column, its (row, col) is the return value, and no other cell changes.
C15_LegalDropEffect ==
    \A column_index \in OpenColumns(board), player_id \in Players :
        LET move == make_move(board, column_index, player_id)
            cell == <<LowestEmptyCell(board, column_index), column_index>>
        IN /\ move.result = cell
           /\ ChangedCells(board, move.board) = {cell}
           /\ board[cell[1]][cell[2]] = EMPTY_SLOT
           /\ move.board[cell[1]][cell[2]] = player_id

\* C15 witness: pieces have been dropped by make_move, and the board has a
\* legal column that already holds pieces, so that the lowest empty cell is
\* not on the bottom row.
C15_Witness ==
    /\ n_calls > 0
    /\ \E c \in OpenColumns(board) : board[ROWS - 1][c] # EMPTY_SLOT

\* The length of the maximal contiguous run of player_id cells through
\* (row, col) along the axis (dr, dc), whatever its length.
RunAhead(grid, row, col, dr, dc, player_id) ==
    Cardinality({k \in 1..(ROWS + COLS) :
        \A j \in 1..k :
            /\ row + dr * j \in RowIdx
            /\ col + dc * j \in ColIdx
            /\ grid[row + dr * j][col + dc * j] = player_id})

MaximalRun(grid, row, col, dr, dc, player_id) ==
    1 + RunAhead(grid, row, col, dr, dc, player_id)
      + RunAhead(grid, row, col, -dr, -dc, player_id)

Axes == {<<1, 0>>, <<0, 1>>, <<1, 1>>, <<1, -1>>}

\* C5: for every anchor that holds a piece, check_win for the piece's owner
\* is true exactly when the maximal run through the anchor has length >= 4 on
\* one of the four axes; the anchor may be anywhere in the run.
C5_WinDetection ==
    \A row \in RowIdx, col \in ColIdx :
        board[row][col] # EMPTY_SLOT =>
            (check_win(board, row, col, board[row][col])
               <=> \E axis \in Axes :
                      MaximalRun(board, row, col, axis[1], axis[2],
                                 board[row][col]) >= 4)

\* C5 witness: a diagonal run of four or more whose anchor is strictly
\* inside the run, and elsewhere a piece whose longest run is exactly 3.
C5_Witness ==
    /\ \E row \in RowIdx, col \in ColIdx :
          /\ board[row][col] # EMPTY_SLOT
          /\ \E axis \in {<<1, 1>>, <<1, -1>>} :
                /\ RunAhead(board, row, col, axis[1], axis[2], board[row][col]) >= 1
                /\ RunAhead(board, row, col, -axis[1], -axis[2], board[row][col]) >= 1
                /\ MaximalRun(board, row, col, axis[1], axis[2], board[row][col]) >= 4
          /\ check_win(board, row, col, board[row][col])
    /\ \E row \in RowIdx, col \in ColIdx :
          /\ board[row][col] # EMPTY_SLOT
          /\ ~check_win(board, row, col, board[row][col])
          /\ \E axis \in Axes :
                MaximalRun(board, row, col, axis[1], axis[2], board[row][col]) = 3

\* ---------------------------------------------------------------------
\* CallSpec: get_ai_move as a function, called again and again on one
\* MinimaxAI instance with one board.  The boards are late positions of
\* games that are not over: a few plies from the recorded positions, the
\* positions where the AI holds the bottom cells of the columns 1, 2 and 3
\* and can complete the row, and positions where Red threatens.
\* ---------------------------------------------------------------------
MaxPlies == 2
MaxSearchCalls == 2

\* player_id has four or more in a row somewhere on the grid.
HasFour(grid, player_id) ==
    \E row \in RowIdx, col \in ColIdx :
        /\ grid[row][col] = player_id
        /\ \E axis \in Axes :
              MaximalRun(grid, row, col, axis[1], axis[2], player_id) >= 4

NoWinner(grid) == \A player_id \in Players : ~HasFour(grid, player_id)

Pieces(grid, player_id) ==
    Cardinality({cell \in RowIdx \X ColIdx : grid[cell[1]][cell[2]] = player_id})

\* The positions of the games that go on from grid for at most plies more
\* placements, player_id placing first, and are not over.
RECURSIVE positions_after(_, _, _)
positions_after(grid, player_id, plies) ==
    {grid} \cup
    IF plies = 0 THEN {}
    ELSE UNION {
        LET placed == make_move(grid, column_index, player_id)
        IN IF \/ check_win(placed.board, placed.result[1], placed.result[2], player_id)
              \/ OpenColumns(placed.board) = {}
           THEN {}
           ELSE positions_after(placed.board, OtherPlayer(player_id), plies - 1)
        : column_index \in OpenColumns(grid)}

\* The immediate-win scenario: the AI to move, no winner yet, the AI on the
\* bottom cells of the columns 1, 2 and 3, the bottom cell of column 4 empty.
Scenario(grid) ==
    /\ \A c \in 1..3 : grid[ROWS - 1][c] = PLAYER_AI_ID
    /\ grid[ROWS - 1][4] = EMPTY_SLOT
    /\ Pieces(grid, PLAYER_HUMAN_ID) = Pieces(grid, PLAYER_AI_ID) + 1
    /\ NoWinner(grid)

\* Late positions of the scenario, by the columns played: the columns 1, 2
\* and 3 are full and column 4 is empty; column 0 is empty in the first
\* two, and holds Red's piece on its bottom cell in the others.
ScenarioGames ==
    {<<6, 3, 5, 6, 3, 2, 3, 1, 1, 2, 2, 5, 5, 6, 6, 5, 6, 3, 5, 5, 3, 2, 2, 1,
       3, 1, 1, 2, 1>>,
     <<5, 3, 3, 1, 1, 6, 6, 1, 3, 1, 1, 3, 1, 2, 3, 2, 3, 6, 2, 5, 5, 5, 5, 2,
       2, 6, 6, 2, 6>>,
     <<0, 3, 5, 2, 5, 6, 2, 1, 1, 6, 1, 3, 5, 1, 3, 3, 1, 3, 1, 5, 5, 5, 6, 6,
       2, 6, 2, 2, 3, 2, 0>>,
     <<0, 3, 6, 0, 5, 2, 3, 5, 3, 5, 5, 6, 5, 2, 5, 3, 3, 1, 2, 6, 2, 6, 2, 2,
       6, 1, 1, 1, 3, 1, 1>>,
     <<5, 3, 5, 2, 2, 1, 0, 2, 1, 6, 6, 5, 3, 6, 2, 3, 5, 6, 1, 2, 2, 1, 3, 1,
       3, 6, 3, 1, 5, 5, 6>>}

ScenarioBoards == {grid \in {Replayed(clicks) : clicks \in ScenarioGames} : Scenario(grid)}

\* The columns where a piece dropped on grid lands next to three
\* consecutive pieces of player_id on one line: the open fourth slots.
OpenFourthSlots(grid, player_id) ==
    {col \in OpenColumns(grid) :
        LET row == lowest_empty_from(grid, col, ROWS - 1)
        IN \E axis \in Axes, sign \in {1, -1} :
              RunAhead(grid, row, col, sign * axis[1], sign * axis[2], player_id) >= 3}

\* The blocking scenario: the AI to move, no winner yet, and Red has three
\* consecutive pieces with an open fourth slot that can be played at once.
Threat(grid) ==
    /\ Pieces(grid, PLAYER_HUMAN_ID) = Pieces(grid, PLAYER_AI_ID) + 1
    /\ NoWinner(grid)
    /\ OpenFourthSlots(grid, PLAYER_HUMAN_ID) # {}

\* Late positions where Red threatens, by the columns played: in the first
\* four one column stops Red and the AI cannot win at once; in the next
\* three the AI can win at once; in the last two every column loses.
ThreatGames ==
    {<<1, 6, 5, 3, 6, 1, 3, 0, 4, 5, 0, 5, 6, 6, 1, 6, 6, 2, 2, 1, 0, 1, 4, 4,
       2, 2, 2, 4, 2, 4, 4>>,
     <<0, 2, 4, 0, 4, 4, 1, 3, 3, 2, 2, 2, 4, 2, 6, 5, 3, 3, 5, 6, 3, 3, 5, 6,
       5, 5, 0, 5, 0, 0, 0>>,
     <<4, 0, 1, 0, 6, 2, 5, 4, 4, 5, 4, 2, 2, 4, 5, 2, 4, 3, 3, 3, 2, 3, 5, 2,
       3, 6, 5, 5, 6, 6, 3>>,
     <<6, 5, 6, 1, 4, 2, 4, 1, 0, 0, 1, 1, 2, 2, 1, 1, 3, 2, 0, 0, 3, 3, 3, 2,
       3, 3, 4, 4, 2, 4, 4>>,
     <<0, 2, 4, 5, 2, 1, 0, 1, 3, 5, 2, 1, 4, 5, 5, 6, 6, 4, 6, 3, 6, 6, 6, 0,
       0, 3, 3, 4, 4, 2, 3, 2, 2, 0, 0>>,
     <<2, 3, 2, 2, 0, 1, 6, 5, 6, 5, 3, 1, 0, 6, 2, 2, 6, 4, 5, 4, 1, 0, 3, 6,
       0, 3, 6, 0, 4, 0, 4, 3, 3>>,
     <<3, 1, 3, 5, 3, 1, 0, 2, 6, 1, 1, 2, 0, 5, 6, 5, 5, 5, 5, 4, 4, 0, 4, 0,
       0, 1, 0, 2, 4, 4, 4>>,
     <<1, 4, 4, 4, 4, 4, 1, 1, 6, 4, 0, 6, 0, 5, 5, 3, 3, 6, 1, 1, 2, 3, 5, 5,
       3, 3, 6, 6, 3, 6, 5>>,
     <<0, 5, 6, 2, 4, 5, 2, 6, 2, 3, 1, 5, 5, 1, 6, 6, 4, 1, 0, 1, 1, 6, 0, 0,
       4, 0, 2, 6, 5, 2, 3, 1, 0>>}

ThreatBoards == {grid \in {Replayed(clicks) : clicks \in ThreatGames} : Threat(grid)}

\* Late positions where columns tie for the greatest value, by the
\* columns played.
TieGames ==
    {<<1, 4, 0, 3, 5, 2, 4, 3, 5, 3, 3, 1, 5, 6, 1, 5, 5, 6, 3, 5, 0, 0, 1, 6,
       3, 0, 1, 0, 2, 1, 0>>,
     <<5, 4, 4, 4, 0, 6, 2, 6, 5, 3, 2, 6, 1, 1, 1, 2, 6, 2, 1, 3, 2, 4, 6, 1,
       4, 1, 3, 3, 3, 4, 3>>,
     <<5, 2, 0, 4, 4, 4, 4, 3, 1, 1, 0, 0, 4, 3, 4, 0, 5, 5, 6, 2, 1, 1, 3, 3,
       6, 6, 6, 6, 0, 6, 0>>,
     <<1, 5, 1, 2, 0, 0, 0, 4, 6, 1, 3, 6, 5, 6, 3, 5, 0, 0, 0, 3, 1, 3, 3, 3,
       1, 6, 6, 5, 5, 6, 5>>,
     <<5, 0, 6, 1, 3, 3, 0, 4, 0, 2, 6, 1, 4, 1, 1, 3, 0, 0, 0, 2, 2, 6, 6, 1,
       6, 1, 3, 2, 2, 6, 2>>}

CallBoards ==
    positions_after(Replayed(RecordedEndgame), PLAYER_HUMAN_ID, MaxPlies)
      \cup positions_after(Replayed(RecordedThreeColumns), PLAYER_AI_ID, MaxPlies)
      \cup positions_after(Replayed(RecordedFourColumns), PLAYER_AI_ID, MaxPlies)
      \cup ScenarioBoards
      \cup ThreatBoards
      \cup {Replayed(clicks) : clicks \in TieGames}

SetMax(S) == CHOOSE x \in S : \A y \in S : y <= x
SetMin(S) == CHOOSE x \in S : \A y \in S : x <= y

\* Minimax without pruning over the tree of _run_minimax: the same stopping
\* conditions and scores, every legal column tried at every node.
RECURSIVE minimax_value(_, _, _, _, _)
minimax_value(self_in, grid, depth, is_maximizing_player, last_pos) ==
    LET self == [self_in EXCEPT !.current_depth_tracker = depth]
        base == base_case(self, grid, depth, is_maximizing_player, last_pos)
        player_id == IF is_maximizing_player THEN PLAYER_AI_ID ELSE PLAYER_HUMAN_ID
        values == {LET sim == simulate_move(grid, col, player_id)
                   IN minimax_value(self, sim.board, depth + 1,
                                    ~is_maximizing_player, sim.pos)
                   : col \in OpenColumns(grid)}
    IN IF base.stops THEN base.value
       ELSE IF is_maximizing_player THEN SetMax(values) ELSE SetMin(values)

\* The unpruned value of each legal column for the AI to move on grid.
RootValues(self, grid) ==
    [col \in OpenColumns(grid) |->
        LET sim == simulate_move(grid, col, PLAYER_AI_ID)
        IN minimax_value(self, sim.board, 0, FALSE, sim.pos)]

\* The unpruned search at the root: the columns in ascending order from
\* col on, a column taken only when its value is strictly greater.
RECURSIVE unpruned_choice(_, _, _, _)
unpruned_choice(values, col, best_score_found, best_column_choice) ==
    IF col >= COLS
    THEN [column |-> best_column_choice, score |-> best_score_found]
    ELSE IF col \in DOMAIN values /\ values[col] > best_score_found
    THEN unpruned_choice(values, col + 1, values[col], col)
    ELSE unpruned_choice(values, col + 1, best_score_found, best_column_choice)

CallInit ==
    /\ board \in CallBoards
    /\ n_calls = 0
    /\ ai_agent = MinimaxAI
    /\ SearchIdle
    /\ NoWindow

\* ai_agent.get_ai_move(board), from the call to the return.
CallGetAiMove ==
    /\ pc = "idle"
    /\ Len(returned) < MaxSearchCalls
    /\ LET out == get_ai_move(ai_agent, board)
       IN /\ ai_agent' = out.self
          /\ result' = out.column
          /\ root' = [NoRoot EXCEPT !.best_score_found = out.score,
                                    !.best_column_choice = out.column]
          /\ returned' = Append(returned,
                               [column |-> out.column,
                                tracker_before |-> ai_agent.current_depth_tracker])
    /\ root_values' = IF returned = <<>>
                      THEN RootValues(ai_agent, board)
                      ELSE root_values
    /\ UNCHANGED <<board_vars, gui_vars, pc, grids, frames, ret>>

CallNext == CallGetAiMove

CallSpec == CallInit /\ [][CallNext]_vars

\* ---------------------------------------------------------------------
\* Properties of get_ai_move as a function
\* ---------------------------------------------------------------------

\* C2: on every position with a legal column, the column get_ai_move
\* returns and the best_score_found it ends with are those of the unpruned
\* minimax over the same tree, columns in ascending order, a column taken
\* only on a strictly greater value.
C2_RootPruningEquivalence ==
    returned # <<>> =>
        LET plain == unpruned_choice(root_values, 0, -Inf, None)
        IN /\ result = plain.column
           /\ root.best_score_found = plain.score

\* C2 witness: a call of the program's search on a position where the
\* best column is not the first one, so that later columns were searched
\* with alpha raised, and the unpruned values differ between columns.
C2_Witness ==
    /\ returned # <<>>
    /\ ai_agent.max_search_depth >= 2
    /\ result > 0
    /\ 0 \in DOMAIN root_values
    /\ \E c \in DOMAIN root_values : c > result /\ root_values[c] < root_values[result]

\* C7: calls of get_ai_move on one instance with the same board and depth
\* limit return the same column, whatever current_depth_tracker was left
\* holding by the call before.
C7_Determinism ==
    \A i, j \in 1..Len(returned) : returned[i].column = returned[j].column

\* C7 witness: a second call that began with a tracker left above 0 by the
\* first, on a board where two columns win at once with a column between.
C7_Witness ==
    /\ Len(returned) >= 2
    /\ returned[2].tracker_before > 0
    /\ returned[1].tracker_before = 0
    /\ Scenario(board)
    /\ board[ROWS - 1][0] = EMPTY_SLOT

\* C8: the column returned is the lowest of the legal columns whose
\* minimax value is the greatest.
C8_LowestColumnTieBreak ==
    returned # <<>> =>
        LET best == SetMax({root_values[c] : c \in DOMAIN root_values})
        IN /\ result \in DOMAIN root_values
           /\ root_values[result] = best
           /\ \A c \in DOMAIN root_values : root_values[c] = best => result <= c

\* C8 witness: two or more columns share the greatest value, the call
\* returned the lowest of them, and a column of lesser value comes before.
C8_Witness ==
    /\ returned # <<>>
    /\ \E c \in DOMAIN root_values : c > result /\ root_values[c] = root_values[result]
    /\ \E c \in DOMAIN root_values : c < result /\ root_values[c] < root_values[result]

\* The columns where a piece of player_id dropped on grid makes four in a row.
WinningColumns(grid, player_id) ==
    {col \in OpenColumns(grid) : HasFour(make_move(grid, col, player_id).board, player_id)}

\* C10 as stated: in the immediate-win scenario get_ai_move returns column
\* 4.  It does not where the bottom cell of column 0 is empty: column 0 wins
\* at once as well, with the same score, and comes first.
C10_ReturnsColumnFour ==
    (returned # <<>> /\ Scenario(board)) => result = 4

\* C10 amended: in the immediate-win scenario get_ai_move returns the lowest
\* column that wins at once: column 0 when its bottom cell is empty, since
\* it completes the same row with the same score, and column 4 when no
\* column below it wins at once.
C10_ReturnsLowestImmediateWin ==
    (returned # <<>> /\ Scenario(board)) =>
        /\ 4 \in WinningColumns(board, PLAYER_AI_ID)
        /\ result \in WinningColumns(board, PLAYER_AI_ID)
        /\ \A c \in WinningColumns(board, PLAYER_AI_ID) : result <= c
        /\ board[ROWS - 1][0] = EMPTY_SLOT => result = 0
        /\ (\A c \in 0..3 : c \notin WinningColumns(board, PLAYER_AI_ID)) => result = 4

\* C10 witness: the scenario with the bottom cell of column 0 taken by Red,
\* where column 4 is the only winning column and is returned.
C10_Witness ==
    /\ returned # <<>>
    /\ Scenario(board)
    /\ board[ROWS - 1][0] = PLAYER_HUMAN_ID
    /\ WinningColumns(board, PLAYER_AI_ID) = {4}
    /\ result = 4

\* C11 as stated: in the blocking scenario get_ai_move with a depth limit
\* of 2 or more returns the column of an open fourth slot of Red.  It does
\* not where the AI can win at once itself, and not where Red has two
\* winning slots, which no move blocks: the lowest column is returned.
C11_BlocksOpenThree ==
    (returned # <<>> /\ ai_agent.max_search_depth >= 2 /\ Threat(board)) =>
        result \in OpenFourthSlots(board, PLAYER_HUMAN_ID)

\* Red can win at once on grid after the AI has dropped in col.
LosesAfter(grid, col) ==
    WinningColumns(make_move(grid, col, PLAYER_AI_ID).board, PLAYER_HUMAN_ID) # {}

\* C11 amended: in the blocking scenario, when the AI has no column that
\* wins at once and exactly one column keeps Red from winning at once,
\* get_ai_move with a depth limit of 1 or more returns that column, which
\* is the column of Red's open fourth slot.
C11_BlocksOnlyThreat ==
    (/\ returned # <<>>
     /\ ai_agent.max_search_depth >= 1
     /\ Threat(board)
     /\ WinningColumns(board, PLAYER_AI_ID) = {}) =>
        \A col \in OpenColumns(board) :
            (\A other \in OpenColumns(board) : LosesAfter(board, other) <=> other # col)
                => /\ result = col
                   /\ WinningColumns(board, PLAYER_HUMAN_ID) = {col}

\* C11 witness: Red has three in a row with one open fourth slot, the AI
\* cannot win at once, a lower column is legal, and the slot is returned
\* by the program's search.
C11_Witness ==
    /\ returned # <<>>
    /\ ai_agent.max_search_depth >= 2
    /\ Threat(board)
    /\ WinningColumns(board, PLAYER_AI_ID) = {}
    /\ OpenFourthSlots(board, PLAYER_HUMAN_ID) = {result}
    /\ ~LosesAfter(board, result)
    /\ \E col \in OpenColumns(board) : col < result

\* ---------------------------------------------------------------------
\* GuiSpec: the window.  One step is one event taken by an event loop of
\* Tk and handled up to the handler's return or to a call that runs the
\* event loop again (master.update(), the message box), or the return of
\* such a call.  The main loop and master.update() take every event; the
\* message box holds the grab, so that only the callbacks scheduled with
\* after() run while it is open.  The AI of the window is the program's,
\* with max_search_depth = AI_MAX_SEARCH_DEPTH: its turns are followed on
\* the late positions of games, where at most MaxOpenColumns columns are
\* open.
\* ---------------------------------------------------------------------
MaxGuiMoves == 2
MaxTimers == 2
MaxNesting == 2
MaxOpenColumns == 3

GameModes == {"AI", "Human"}

\* A game against the program's AI, by the columns played: the odd entries
\* are Red's clicks, the even ones the AI's answers.  Red's 20th click, on
\* column 5, completes four in a row.
RecordedGameVsAI ==
    <<3, 3, 2, 1, 0, 1, 0, 0, 0, 1, 1, 0, 0, 1, 6, 1, 2, 3, 2, 2, 2, 3, 3, 3,
      2, 4, 4, 4, 4, 4, 5, 4, 6, 6, 6, 6, 6, 5, 5>>

\* The same game up to Red's 14th click, then Red's clicks on column 5
\* with the AI's answers: the answer to the third is the AI's winning
\* piece on top of column 4.
RecordedLossVsAI ==
    <<3, 3, 2, 1, 0, 1, 0, 0, 0, 1, 1, 0, 0, 1, 6, 1, 2, 3, 2, 2, 2, 3, 3, 3,
      2, 4, 4, 4, 5, 4, 5, 4, 5, 4>>

\* A game against the program's AI that fills the board without a winner;
\* the AI places the last piece.
RecordedDrawVsAI ==
    <<3, 3, 2, 1, 0, 1, 0, 0, 0, 1, 1, 0, 0, 1, 1, 3, 3, 2, 2, 2, 2, 2, 3, 3,
      5, 4, 4, 4, 4, 4, 4, 5, 5, 5, 5, 5, 6, 6, 6, 6, 6, 6>>

\* Six clicks of a two-player game: Red holds the bottom cells of the
\* columns 0, 1 and 2 with Yellow on top of them, and Red is to move.
RecordedBottomRow == <<0, 0, 1, 1, 2, 2>>

\* The window [self, agent, board] after the clicks i.. of a two-player
\* game, nothing else being handled meanwhile; the clicks that follow the
\* end of the game are ignored.
RECURSIVE gui_replay(_, _, _)
gui_replay(window, clicks, i) ==
    IF i > Len(clicks) THEN window
    ELSE IF ~window.self.is_game_running THEN window
    ELSE LET clicked == on_canvas_click(window.self, window.board, clicks[i])
         IN gui_replay([self |-> resume(clicked.self, clicked.waits).self,
                        agent |-> window.agent, board |-> clicked.board],
                       clicks, i + 1)

\* The window after a recorded two-player game played from the start menu.
GuiReplayed(clicks) ==
    LET started == initialize_game(ConnectFourGUI, "Human")
    IN gui_replay([self |-> started.self, agent |-> MinimaxAI,
                   board |-> started.board], clicks, 1)

\* The window as the program leaves it when run_ai_turn has placed the
\* last of the placements of a game against the AI and the game goes on,
\* tracker being the current_depth_tracker its search left.
RecordedWindow(placements, tracker) ==
    LET before == Replayed(SubSeq(placements, 1, Len(placements) - 1))
        move == make_move(before, placements[Len(placements)], PLAYER_AI_ID)
        started == initialize_game(ConnectFourGUI, "AI")
    IN [self |-> [started.self EXCEPT !.last_row = move.result[1],
                                      !.last_col = move.result[2],
                                      !.status_label = "Your Turn (Red)"],
        agent |-> [MinimaxAI EXCEPT !.current_depth_tracker = tracker],
        board |-> move.board]

\* The windows the runs start from: the one just constructed, those of
\* the recorded two-player games, and those of the recorded games against
\* the AI after Red's 15th, 17th and 19th click, before the AI's winning
\* answer, and before the last two cells are filled.
GuiSeeds ==
    {[self |-> ConnectFourGUI, agent |-> MinimaxAI, board |-> EmptyBoard],
     GuiReplayed(RecordedEndgame \o <<5, 2>>),
     GuiReplayed(RecordedBottomRow),
     RecordedWindow(SubSeq(RecordedGameVsAI, 1, 30), 7),
     RecordedWindow(SubSeq(RecordedGameVsAI, 1, 34), 5),
     RecordedWindow(SubSeq(RecordedGameVsAI, 1, 38), 1),
     RecordedWindow(SubSeq(RecordedLossVsAI, 1, 32), 7),
     RecordedWindow(SubSeq(RecordedDrawVsAI, 1, 40), 2)}

\* The callbacks that can be pending when a recorded game is taken up: none,
\* or those left by games against the AI that were restarted after a click
\* (reset_game cancels nothing).
SeedTimers(window) ==
    IF window.is_game_running THEN 0..(MaxTimers - 1) ELSE {0}

GuiInit ==
    /\ \E seed \in GuiSeeds :
          /\ game_app = seed.self
          /\ ai_agent = seed.agent
          /\ board = seed.board
          /\ timers \in SeedTimers(seed.self)
    /\ handlers = <<>>
    /\ n_calls = 0
    /\ SearchIdle

\* The innermost event loop is that of the message box.
Modal == handlers # <<>> /\ handlers[Len(handlers)] = "dialog"

\* The callbacks scheduled, and those the handlers waiting in
\* master.update() schedule when it returns.
Pending ==
    timers + Cardinality({i \in 1..Len(handlers) : handlers[i] = "update"})

\* The searches of the AI are followed on these grids.
Dense(grid) == Cardinality(OpenColumns(grid)) <= MaxOpenColumns

\* A menu button is pressed: initialize_game(selected_mode).
InitializeGame(selected_mode) ==
    /\ game_app.screen = "menu"
    /\ ~Modal
    /\ LET started == initialize_game(game_app, selected_mode)
       IN /\ game_app' = started.self
          /\ board' = started.board
    /\ n_calls' = 0
    /\ UNCHANGED <<timers, handlers, search_vars, call_vars>>

\* A click on the canvas: on_canvas_click, up to its return or to the
\* event loop it runs.  n_calls counts the pieces placed in the game since
\* it began or since the recorded position.
OnCanvasClick(column_clicked) ==
    /\ game_app.screen = "game"
    /\ ~Modal
    /\ n_calls < MaxGuiMoves
    /\ LET clicked == on_canvas_click(game_app, board, column_clicked)
       IN /\ clicked.waits # "none" => Len(handlers) < MaxNesting
          /\ clicked.waits = "update" =>
                (Pending < MaxTimers /\ Dense(clicked.board))
          /\ game_app' = clicked.self
          /\ board' = clicked.board
          /\ handlers' = IF clicked.waits = "none" THEN handlers
                         ELSE Append(handlers, clicked.waits)
          /\ n_calls' = IF clicked.board = board THEN n_calls ELSE n_calls + 1
    /\ UNCHANGED <<timers, search_vars, call_vars>>

\* A callback scheduled with after(100, self.run_ai_turn) fires, in the
\* main loop, in master.update() or while the message box is open:
\* run_ai_turn, up to its return or to the message box.
RunAiTurn ==
    /\ timers > 0
    /\ game_app.is_game_running => Dense(board)
    /\ timers' = timers - 1
    /\ LET moved == run_ai_turn(game_app, ai_agent, board)
       IN /\ game_app' = moved.self
          /\ ai_agent' = moved.agent
          /\ board' = moved.board
          /\ handlers' = IF moved.waits = "none" THEN handlers
                         ELSE Append(handlers, moved.waits)
          /\ n_calls' = IF moved.board = board THEN n_calls ELSE n_calls + 1
    /\ UNCHANGED <<pc, grids, root, frames, ret, result, call_vars>>

\* The restart button is pressed: reset_game.
ResetGame ==
    /\ game_app.screen = "game"
    /\ ~Modal
    /\ game_app' = reset_game(game_app)
    /\ UNCHANGED <<board_vars, timers, handlers, search_vars, call_vars>>

\* master.update() returns, or the message box is closed, and the handler
\* that called it runs to its end.
HandlerResumes ==
    /\ handlers # <<>>
    /\ LET resumed == resume(game_app, handlers[Len(handlers)])
       IN /\ game_app' = resumed.self
          /\ timers' = timers + resumed.after
    /\ handlers' = SubSeq(handlers, 1, Len(handlers) - 1)
    /\ UNCHANGED <<board_vars, search_vars, call_vars>>

GuiNext ==
    \/ \E selected_mode \in GameModes : InitializeGame(selected_mode)
    \/ \E column_clicked \in ColumnArgs : OnCanvasClick(column_clicked)
    \/ RunAiTurn
    \/ ResetGame
    \/ HandlerResumes

GuiSpec == GuiInit /\ [][GuiNext]_vars

\* A step that takes a callback off the timer queue of Tk.  In the window
\* these are the RunAiTurn steps and no others.
CallbackFires ==
    /\ timers > 0
    /\ game_app.is_game_running => Dense(board)
    /\ timers' = timers - 1

\* A step in which the innermost event loop returns.  In the window these
\* are the HandlerResumes steps and no others.
EventLoopReturns ==
    /\ handlers # <<>>
    /\ handlers' = SubSeq(handlers, 1, Len(handlers) - 1)

\* The window with every callback scheduled by after(100, self.run_ai_turn)
\* fired in the end by an event loop, master.update() returning and the
\* message box closed in the end.
FairGuiSpec ==
    GuiSpec /\ WF_timers(CallbackFires) /\ WF_handlers(EventLoopReturns)

\* ---------------------------------------------------------------------
\* Properties of the window
\* ---------------------------------------------------------------------

\* The piece placed last makes four or more in a row for its owner.
LastPlacementWins ==
    /\ game_app.last_row # None
    /\ board[game_app.last_row][game_app.last_col] # EMPTY_SLOT
    /\ \E axis \in Axes :
          MaximalRun(board, game_app.last_row, game_app.last_col, axis[1], axis[2],
                     board[game_app.last_row][game_app.last_col]) >= 4

\* The texts that declare player_id the winner, in either mode.
WinnerTexts(player_id) ==
    IF player_id = PLAYER_HUMAN_ID
    THEN {"Human Player (Red) Wins!", "Player 1 (Red) Wins!"}
    ELSE {"AI Player (Yellow) Wins!", "Player 2 (Yellow) Wins!"}

\* C6: after any move the game is declared a draw exactly when the board
\* has no legal column and the last placement does not win; a move that
\* fills the last cell and completes four in a row is declared a win for
\* the mover, and the game is over.
C6_DrawOrWin ==
    /\ game_app.status_label = "It's a Draw!"
         <=> (OpenColumns(board) = {} /\ ~LastPlacementWins)
    /\ (OpenColumns(board) = {} /\ LastPlacementWins) =>
          /\ game_app.status_label
                \in WinnerTexts(board[game_app.last_row][game_app.last_col])
          /\ ~game_app.is_game_running

\* C6 witness: the last cell has been filled by a piece that completes
\* four in a row, and the mover is declared the winner.
C6_Witness ==
    /\ OpenColumns(board) = {}
    /\ LastPlacementWins
    /\ n_calls > 0
    /\ game_app.status_label
          \in WinnerTexts(board[game_app.last_row][game_app.last_col])

\* A full board without a winning last placement, declared a draw.
DrawDeclared ==
    /\ OpenColumns(board) = {}
    /\ ~LastPlacementWins
    /\ n_calls > 0
    /\ game_app.status_label = "It's a Draw!"

\* C13 as stated: in every reachable state of the window, in both game
\* modes, the number of Red pieces minus the number of Yellow pieces on the
\* board is 0 or 1.  A run_ai_turn callback left pending by a game that was
\* restarted fires in the next game, where it places a Yellow piece out of
\* turn.
C13_TurnAlternation ==
    Pieces(board, PLAYER_HUMAN_ID) - Pieces(board, PLAYER_AI_ID) \in {0, 1}

\* The callback of an abandoned game has placed a piece in a two-player
\* game where it was Red's turn: Yellow holds one piece more than Red.
StaleCallbackMoved ==
    /\ game_app.game_mode = "Human"
    /\ n_calls > 0
    /\ Pieces(board, PLAYER_AI_ID) = Pieces(board, PLAYER_HUMAN_ID) + 1

\* C14: whenever run_ai_turn calls get_ai_move (a callback is pending and
\* the game is running), the board has a legal column and no four in a row
\* of either player, get_ai_move returns a column and the make_move that
\* follows succeeds (the search being run where the board is one of the
\* late positions the AI's turns are followed on).
C14_SearchOnlyOnOpenGame ==
    (timers > 0 /\ game_app.is_game_running) =>
        /\ OpenColumns(board) # {}
        /\ NoWinner(board)
        /\ Dense(board) =>
              LET best_col == get_ai_move(ai_agent, board).column
              IN /\ best_col # None
                 /\ make_move(board, best_col, PLAYER_AI_ID).result # NoResult

\* C14 witness: run_ai_turn has called get_ai_move and placed the piece it
\* chose, and the turn is back with Red.
C14_Witness ==
    /\ n_calls > 0
    /\ game_app.is_game_running
    /\ game_app.status_label = "Your Turn (Red)"
    /\ game_app.last_row # None
    /\ board[game_app.last_row][game_app.last_col] = PLAYER_AI_ID

\* C21: in the games of the window, where check_game_over evaluates
\* check_win at the last placement right after every move and the game
\* stops at the first win, check_win(board, last_row, last_col, mover)
\* after a move is true exactly when the board holds four contiguous
\* collinear pieces of the mover; and while is_game_running is true the
\* board holds no four in a row of either player.
C21_AnchoredWinCheck ==
    /\ [](game_app.is_game_running => NoWinner(board))
    /\ [][board' # board /\ board' # EmptyBoard =>
             LET mover == board'[game_app'.last_row][game_app'.last_col]
             IN /\ mover \in Players
                /\ ChangedCells(board, board')
                     = {<<game_app'.last_row, game_app'.last_col>>}
                /\ check_win(board', game_app'.last_row, game_app'.last_col, mover)
                     <=> HasFour(board', mover)
                /\ game_app'.is_game_running
                     <=> (~HasFour(board', mover) /\ OpenColumns(board') # {})
        ]_vars

\* C21 witness: a move has just completed a line of four that does not end
\* at the piece placed last, check_win has found it there and the game has
\* stopped with the mover declared the winner.
C21_Witness ==
    /\ n_calls > 0
    /\ ~game_app.is_game_running
    /\ LastPlacementWins
    /\ ~check_win_one_way(board, game_app.last_row, game_app.last_col,
                          board[game_app.last_row][game_app.last_col])
    /\ game_app.status_label
          \in WinnerTexts(board[game_app.last_row][game_app.last_col])

\* C22: a click that arrives while is_processing_move is true or while
\* is_game_running is false changes neither the board nor any field of the
\* window and schedules no callback; a click on a full or out-of-range
\* column while the window is unlocked leaves the board and active_player
\* as they were, schedules nothing and ends with the lock released.
C22_InputLock ==
    \A column_clicked \in ColumnArgs :
        LET clicked == on_canvas_click(game_app, board, column_clicked)
        IN IF game_app.is_processing_move \/ ~game_app.is_game_running
           THEN /\ clicked.board = board
                /\ clicked.self = game_app
                /\ clicked.waits = "none"
                /\ resume(clicked.self, clicked.waits).after = 0
           ELSE column_clicked \notin OpenColumns(board) =>
                   /\ clicked.board = board
                   /\ clicked.self.active_player = game_app.active_player
                   /\ clicked.self.is_game_running
                   /\ ~clicked.self.is_processing_move
                   /\ clicked.waits = "none"
                   /\ resume(clicked.self, clicked.waits).after = 0

\* C22 witness: the AI's callback is pending on a running game, the window
\* is locked and the board has open columns a click could drop a piece in.
C22_Witness ==
    /\ n_calls > 0
    /\ game_app.is_game_running
    /\ game_app.is_processing_move
    /\ timers > 0
    /\ OpenColumns(board) # {}

\* A running, unlocked game whose board has a full column to click on.
UnlockedWithFullColumn ==
    /\ n_calls > 0
    /\ game_app.is_game_running
    /\ ~game_app.is_processing_move
    /\ OpenColumns(board) # ColIdx

\* C23: whenever is_processing_move is true it becomes false again: at the
\* end of the same click in a two-player game, on an illegal click and on
\* game over, and in a game against the AI once the scheduled run_ai_turn
\* callback has run or the game has been restarted, every scheduled
\* callback firing in the end.
C23_LockReleased ==
    game_app.is_processing_move ~> ~game_app.is_processing_move

\* C23 witness: in a game against the AI a click has locked the window,
\* the callback has run, placed the AI's piece and released the lock.
C23_Witness ==
    /\ n_calls >= 2
    /\ timers = 0
    /\ game_app.game_mode = "AI"
    /\ game_app.is_game_running
    /\ game_app.active_player = PLAYER_HUMAN_ID
    /\ ~game_app.is_processing_move
    /\ board[game_app.last_row][game_app.last_col] = PLAYER_AI_ID

\* The game has ended by a win or a draw declared by check_game_over.
GameOverDeclared ==
    /\ ~game_app.is_game_running
    /\ game_app.status_label
          \in WinnerTexts(PLAYER_HUMAN_ID) \cup WinnerTexts(PLAYER_AI_ID)
              \cup {"It's a Draw!"}

\* C24: once is_game_running is false no click and no pending run_ai_turn
\* callback places a piece: the board stays as it is until initialize_game
\* replaces it with the empty board of a new, running game.
C24_FinishedGameFrozen ==
    [][~game_app.is_game_running =>
          \/ board' = board
          \/ /\ board' = EmptyBoard
             /\ game_app'.is_game_running
             /\ game_app.screen = "menu"
      ]_vars

\* C24 witness: a game has ended by a declared win with columns still open
\* and a run_ai_turn callback still pending.
C24_Witness ==
    /\ n_calls > 0
    /\ GameOverDeclared
    /\ game_app.screen = "game"
    /\ OpenColumns(board) # {}
    /\ timers > 0

\* ---------------------------------------------------------------------
\* Ply accounting of the search
\* ---------------------------------------------------------------------

\* The number of plies between the board given to get_ai_move and the
\* working board of the search.
PliesBelowRoot == Cardinality(ChangedCells(board, grids[root.board_copy]))

\* C19 as stated: get_ai_move evaluates the position after each root move
\* by a call of _run_minimax at depth 1 with the minimizing side to move,
\* and the depth cutoff is applied to positions exactly max_search_depth
\* plies after the board given.  The call is made with depth = 0, and the
\* cutoff falls one ply further down.
C19_RootCallAtDepthOne ==
    pc = "enter" =>
        /\ Len(frames) = 1 => (Top.depth = 1 /\ ~Top.is_maximizing_player)
        /\ Top.depth = ai_agent.max_search_depth =>
              PliesBelowRoot = ai_agent.max_search_depth

\* What the search does: the call for a root move has depth 0, a call of
\* depth d is entered d + 1 plies below the board given, and so the cutoff
\* is applied max_search_depth + 1 plies below it.
RootCallAtDepthZero ==
    pc = "enter" =>
        /\ Len(frames) = 1 => (Top.depth = 0 /\ ~Top.is_maximizing_player)
        /\ PliesBelowRoot = Top.depth + 1
        /\ Top.depth = ai_agent.max_search_depth =>
              PliesBelowRoot = ai_agent.max_search_depth + 1

\* ---------------------------------------------------------------------
\* Pruning, call by call
\* ---------------------------------------------------------------------

\* The _run_minimax call that has just returned ret: the depth and side it
\* was called with, the placement that led to it, the alpha and beta it
\* received, and the unpruned value of the position it was entered on.
ReturnedCall ==
    LET depth == Len(frames)
        is_maximizing_player == depth % 2 = 1
        last_pos == IF frames = <<>> THEN root.pos ELSE Top.pos
    IN [alpha |-> IF frames = <<>> THEN root.alpha ELSE Top.alpha,
        beta |-> IF frames = <<>> THEN root.beta ELSE Top.beta,
        unpruned |-> minimax_value(ai_agent, grids[root.board_copy],
                                   depth, is_maximizing_player, last_pos)]

\* C20 as stated: every _run_minimax call, with whatever alpha and beta it
\* receives, returns the value an unpruned minimax returns for the same
\* position, depth and side to move.
C20_NodePruningEquivalence ==
    pc = "returned" => ret = ReturnedCall.unpruned

\* C20, amended: a _run_minimax call returns the unpruned value of its
\* position when that value lies strictly between the alpha and beta it
\* received; when the unpruned value is at most alpha the call returns a
\* value between it and alpha, and when it is at least beta a value
\* between beta and it.
C20_WindowedEquivalence ==
    pc = "returned" =>
        LET call == ReturnedCall
        IN /\ call.alpha < call.beta
           /\ (call.alpha < call.unpruned /\ call.unpruned < call.beta) =>
                 ret = call.unpruned
           /\ call.unpruned <= call.alpha =>
                 (call.unpruned <= ret /\ ret <= call.alpha)
           /\ call.unpruned >= call.beta =>
                 (call.beta <= ret /\ ret <= call.unpruned)

\* C20 witness: a call that left its loop through the break has returned a
\* value that is not the unpruned value of its position.
C20_Witness ==
    /\ pc = "returned"
    /\ ret # ReturnedCall.unpruned
    /\ ReturnedCall.unpruned <= ReturnedCall.alpha

\* A call has returned the unpruned value of a position that has moves
\* below it, the value lying inside the window it received.
ExactInsideWindow ==
    /\ pc = "returned"
    /\ Len(frames) < ai_agent.max_search_depth
    /\ ReturnedCall.alpha < ret
    /\ ret < ReturnedCall.beta
    /\ ret = ReturnedCall.unpruned

=============================================================================
